---- MODULE Spec2Model ----
(***************************************************************************)
(* Model of the inference process (crates/inference-cpp): the frame slot   *)
(* as read by FrameReader, the detection slot as opened and written by     *)
(* DetectionWriter, the signalling queues behind BridgeSemaphore, and the  *)
(* event loop of main that ties them together.                             *)
(*                                                                         *)
(* A slot is an 8-byte sequence counter followed by a payload region.  The *)
(* payload region is modelled as a sequence of cells; a cell stands for a  *)
(* run of bytes of one serialized record and carries the record it came    *)
(* from (id), the record's length in cells (len), its own position in the  *)
(* record (pos) and whether the bytes are well formed (ok).  memcpy writes *)
(* the cells one at a time, and loads of the payload read them one at a    *)
(* time, so that every interleaving of a copy with a read is a behaviour.  *)
(***************************************************************************)
EXTENDS Integers, Sequences, FiniteSets, TLC

\* sizeof(AtomicU64): the sequence counter in front of the payload region.
HEADER_SIZE == 8

\* Bounds of the model.
FrameCells == 2       \* cells in the payload region of the frame slot
MaxSeq == 3           \* no publication is started once a counter reached it
DefaultPayload == 2   \* cells in the payload region of a default-size file
MaxDet == 2           \* most detections handed to one write
MaxFrame == 2         \* largest frame_number handed to write
MaxQueues == 3        \* no queue is created once this many have been
QueueCap == 2         \* tokens a signalling queue holds (mq_maxmsg, scaled down)

VARIABLES
    \* ---- frame slot (shared memory) ----
    frame_seq,        \* bytes [0..8): the sequence counter
    frame_payload,    \* bytes [8..size): the payload region, FrameCells cells
    \* ---- capture's writer on the frame slot ----
    fw_pc,            \* "idle" | "copy" | "bump"
    fw_rec,           \* the record being published / last published
    fw_i,             \* next cell the copy writes
    \* ---- FrameReader and its caller ----
    r_pc,             \* "idle" | "load2" | "verify" | "ret" | "use" | "used"
    seq1,             \* get_frame's first load
    seq2,             \* get_frame's second load
    r_j,              \* next cell the verifier / the caller reads
    r_obs,            \* the cells the verifier has read
    r_result,         \* "none" | "null" | "view"
    r_seen,           \* the cells the caller has read through the view
    r_overlap,        \* history: a publication was in progress during the call
    r_latest,         \* history: the writer's record when the call started
    r_prev_torn,      \* history: the previous call returned null and was overlapped
    last_sequence,    \* FrameReader::last_sequence_
    \* ---- detection slot (backing file and its shared mapping) ----
    det_exists,       \* the backing file exists
    det_size,         \* st_size of the backing file
    det_seq,          \* bytes [0..8): the sequence counter
    det_payload,      \* bytes [8..size): the payload region
    \* ---- DetectionWriter ----
    w_open,           \* a DetectionWriter object is alive
    mmap_size,        \* its mmap_size_
    w_pc,             \* "idle" | "copy" | "load" | "store" | "ret"
    w_rec,            \* the record write() was called with
    w_i,              \* next cell memcpy writes
    old_seq,          \* write's relaxed load of the counter
    w_ret,            \* "none" | "ok" | "fail": what write() returns
    w_entry_seq,      \* history: the counter when write() was entered
    w_entry_payload,  \* history: the payload when write() was entered
    w_fresh,          \* history: with_path created the file for this writer
    w_wrote,          \* history: a write of this writer has succeeded
    \* ---- a reader of the detection slot (the controller) ----
    c_pc,             \* "idle" | "read" | "load2" | "done"
    c_s1,             \* its first load of the counter
    c_j,              \* next cell it reads
    c_obs,            \* the cells it has read
    c_accept,         \* its verdict: s1 = s2 and s1 # 0
    observed,         \* the latest result of sequence()
    \* ---- the kernel's message-queue namespace, one name ----
    mq_bound,         \* the queue the name refers to, 0 when unlinked
    mq_count,         \* queues created so far; a new queue is mq_count + 1
    \* ---- processes calling BridgeSemaphore::open / create on that name ----
    h_pc,             \* per process: "start" | "unlinked" | "done"
    h_call,           \* per process: "none" | "open" | "create"
    mqd,              \* per process: the queue its mqd_ refers to, 0 for none
    h_conc,           \* history: the other process ran create during this call
    \* ---- the two signalling queues of the event loop ----
    fq,               \* frame queue: its tokens, oldest first; a token is
                      \* written as the publication it was posted for
    cq,               \* controller queue: the number of tokens in it
    cap_posts,        \* capture: the last publication it has posted for
    \* ---- main's event loop ----
    p_pc,             \* position of the loop
    p_ret,            \* "none" | "true" | "false": what wait/try_wait/post returned
    p_errno,          \* "none" | "EINTR" | "ETIMEDOUT" | "EOTHER": errno of the call
    count,            \* drain's count
    p_ndet,           \* detections.size() of this iteration
    frames_processed,
    frames_skipped,
    total_detections,
    g_n,              \* history: tokens in the frame queue when drain was entered
    g_taken,          \* history: tokens drain has received since it was entered
    g_empty,          \* history: the try_wait that just returned found no token queued
    g_posts,          \* history: calls of controller_semaphore.post()
    g_writes,         \* history: calls of detection_writer.write that returned true
    g_at_wait,        \* history: what the loop had done when wait was entered
    g_skipped,        \* history: the iteration was given up at a "continue"
    g_k,              \* history: tokens in the frame queue when wait was entered
    g_arrived,        \* history: a token arrived between that entry and drain's return
    g_done,           \* history: frames processed since that entry
    g_wait_seq,       \* history: the frame counter when wait last returned true
    g_prev_stamp,     \* history: the token wait last returned
    \* ---- one frame through preprocess and parse_detections ----
    img,              \* <<width, height>> of the frame
    raw,              \* InferenceOutput: the engine's detections, in its order
    pre,              \* PreprocessResult, with new_width and new_height
    pd_i,             \* parse_detections: the loop index i (from 1)
    detections,       \* parse_detections: the vector being built
    t_pc,             \* "start", "parse", "done"
    \* ---- TensorRTBackend ----
    runtime_,         \* the adapter holds a runtime
    engine_,          \* the adapter holds an engine
    context_,         \* the adapter holds an execution context
    d_bufs,           \* device buffer -> the adapter holds it
    a_pc,             \* "idle", a step of load_engine or infer, "destroyed"
    a_i,              \* allocate_buffers: the buffer to allocate next
    a_call,           \* the call in progress or last returned: "none", "load", "infer"
    a_ret,            \* what it returned: "none", "true", "false"
    a_loads,          \* calls of load_engine so far
    a_infers,         \* calls of infer so far
    a_entry,          \* history: what the adapter held when infer was entered
    a_failed,         \* history: an infer has returned false
    \* ---- main, from its first line to the event loop ----
    s_pc,             \* "engine", "reader", "writer", "frame_sem", "ctl_open",
                      \* "ctl_create", "loop", "exited"
    exit_code,        \* what main returned, -1 while it has not returned
    frame_file,       \* the frame buffer's backing file exists
    fq_exists,        \* the frame queue's name exists
    s_tries,          \* failed attempts of the retry loop main is in
    s_retried,        \* history: main has slept and retried
    \* ---- the frame of the iteration ----
    g_read_seq,       \* history: seq1 of the get_frame that last returned a view
    v_frame,          \* the fields main extracted: width, height, format, and
                      \* the size of the pixel vector, -1 without one
    v_pc,             \* "frame", "fields", "preprocess", "infer", "terminated"
    v_read,           \* bytes preprocess has read from pixels->data()
    \* ---- objects that own OS resources ----
    objs,             \* per object: alive, its class, and what its members hold
    acquired,         \* resources the kernel has handed out; resource k is the
                      \* k-th one
    released          \* the resources released, in the order of the calls

fvars == <<frame_seq, frame_payload, fw_pc, fw_rec, fw_i,
           r_pc, seq1, seq2, r_j, r_obs, r_result, r_seen, r_overlap, r_latest, r_prev_torn,
           last_sequence>>

dvars == <<det_exists, det_size, det_seq, det_payload,
           w_open, mmap_size, w_pc, w_rec, w_i, old_seq, w_ret,
           w_entry_seq, w_entry_payload, w_fresh, w_wrote,
           c_pc, c_s1, c_j, c_obs, c_accept, observed>>

\* Everything outside the two slots: the signalling queues and the loop.
cvars == <<mq_bound, mq_count, h_pc, h_call, mqd, h_conc>>

qvars == <<fq, cq, cap_posts>>

lvars == <<p_pc, p_ret, p_errno, count, p_ndet>>

kvars == <<frames_processed, frames_skipped, total_detections>>

gvars == <<g_k, g_arrived, g_done, g_wait_seq, g_prev_stamp>>

\* History of the call of drain() in progress.
drainvars == <<g_n, g_taken, g_empty>>

\* History of the loop: its posts and successful writes, and their state
\* when the iteration began.
itervars == <<g_posts, g_writes, g_at_wait, g_skipped>>

hvars == <<drainvars, itervars>>

pvars == <<qvars, lvars, kvars, gvars, hvars>>

\* The stages of one frame, taken by themselves.
tvars == <<img, raw, pre, pd_i, detections, t_pc>>

\* What neither the slots, nor the queues, nor the loop's bookkeeping touch.
\* The adapter's resources.
resvars == <<runtime_, engine_, context_, d_bufs>>

avars == <<resvars, a_pc, a_i, a_call, a_ret, a_loads, a_infers, a_entry, a_failed>>

\* main's way to the event loop, and what of its peers it waits for.
startvars == <<s_pc, exit_code, frame_file, fq_exists, s_tries, s_retried>>

\* The frame main holds: what it was read under, and what of it goes to
\* preprocess.
viewvars == <<v_frame, v_pc, v_read>>

readvars == <<g_read_seq, viewvars>>

\* Objects and the resources they own.
lifevars == <<objs, acquired, released>>

uvars == <<tvars, avars, startvars, readvars, lifevars>>

xvars == <<cvars, pvars, uvars>>

vars == <<fvars, dvars, xvars>>

----------------------------------------------------------------------------
(* Records and their serialized form *)

Cell(id, len, pos, ok) == [id |-> id, len |-> len, pos |-> pos, ok |-> ok]

\* A byte range of a freshly truncated (zero-filled) file.
ZeroCell == Cell(0, 0, 0, FALSE)

Zeros(n) == [j \in 1..n |-> ZeroCell]

\* The serialized bytes of a record: len cells that all carry the record.
RecordBytes(rec) == [j \in 1..rec.len |-> Cell(rec.id, rec.len, j, rec.ok)]

\* memcpy of one cell of src into dst at the same offset.
CopyCell(dst, src, i) == [dst EXCEPT ![i] = src[i]]

\* flatbuffers::Verifier(buffer, buflen).VerifyBuffer<T>(): the root is well
\* formed, the record it describes lies inside buflen, and every part the
\* root refers to is where the root says it is and is itself well formed.
VerifyBuffer(buf, buflen) ==
    /\ buflen >= 1
    /\ LET h == buf[1] IN
        /\ h.ok
        /\ h.pos = 1
        /\ h.len >= 1
        /\ h.len <= buflen
        /\ \A j \in 1..h.len : buf[j].ok /\ buf[j].pos = j /\ buf[j].len = h.len

\* The bytes are those of one single record, complete.
IsOneRecord(buf) ==
    LET h == buf[1] IN
        /\ h.id >= 1
        /\ h.len >= 1
        /\ h.len <= Len(buf)
        /\ \A j \in 1..h.len : buf[j] = Cell(h.id, h.len, j, h.ok)

----------------------------------------------------------------------------
(* Frame slot: the writer side (capture) *)

FrameRegion == FrameCells

\* No record: what the writer holds before its first publication.
NoRecord == [id |-> 0, len |-> 0, ok |-> FALSE]

\* A publication is in progress: the payload is being mutated and the
\* counter has not been bumped yet.
FrameWriterBusy == fw_pc # "idle"

\* History kept for the reader's call in progress.
NoteOverlap ==
    r_overlap' = IF r_pc \in {"load2", "verify"} THEN TRUE ELSE r_overlap

\* The writer of the frame slot is the capture process; it follows the
\* publication protocol of the slot: serialize, copy the bytes to offset 8,
\* then release-store current_sequence + 1.  frame_number counts the
\* publications.
\* Step 1 and the start of step 2: serialize, then copy the first cell.
FW_Begin(len, ok) ==
    /\ fw_pc = "idle"
    /\ frame_seq < MaxSeq
    /\ LET rec == [id |-> frame_seq + 1, len |-> len, ok |-> ok] IN
        /\ fw_rec' = rec
        /\ frame_payload' = CopyCell(frame_payload, RecordBytes(rec), 1)
        /\ fw_pc' = IF len = 1 THEN "bump" ELSE "copy"
        /\ fw_i' = 2
    /\ NoteOverlap
    /\ UNCHANGED <<frame_seq, r_pc, seq1, seq2, r_j, r_obs, r_result, r_seen, r_latest, r_prev_torn>>
    /\ UNCHANGED <<last_sequence, dvars, xvars>>

\* Step 2 continued: the copy of the remaining cells.
FW_Copy ==
    /\ fw_pc = "copy"
    /\ frame_payload' = CopyCell(frame_payload, RecordBytes(fw_rec), fw_i)
    /\ fw_i' = fw_i + 1
    /\ fw_pc' = IF fw_i = fw_rec.len THEN "bump" ELSE "copy"
    /\ NoteOverlap
    /\ UNCHANGED <<frame_seq, fw_rec, r_pc, seq1, seq2, r_j, r_obs, r_result, r_seen, r_latest, r_prev_torn>>
    /\ UNCHANGED <<last_sequence, dvars, xvars>>

\* Step 3: release-store of current_sequence + 1.
FW_Bump ==
    /\ fw_pc = "bump"
    /\ frame_seq' = frame_seq + 1
    /\ fw_pc' = "idle"
    /\ NoteOverlap
    /\ UNCHANGED <<frame_payload, fw_rec, fw_i, r_pc, seq1, seq2, r_j, r_obs, r_result, r_seen, r_latest, r_prev_torn>>
    /\ UNCHANGED <<last_sequence, dvars, xvars>>

----------------------------------------------------------------------------
(* Frame slot: FrameReader *)

\* FrameReader::current_sequence: acquire-load of the first 8 bytes.
current_sequence == frame_seq

\* Mutant of NoFrameYet: the test is off by one.
NoFrameYetOffByOne(s1) == s1 <= 1

\* get_frame: "if (seq1 == 0) return nullptr"
NoFrameYet(s1) == s1 = 0

\* Mutant of SequenceChanged: the second check is lost.
SequenceChangedIgnored(s1, s2) == FALSE

\* get_frame: "if (seq1 != seq2) return nullptr"
SequenceChanged(s1, s2) == s1 # s2

\* get_frame, first load.
GetFrame_Load1 ==
    /\ r_pc = "idle"
    /\ seq1' = current_sequence
    /\ r_overlap' = FrameWriterBusy
    /\ r_latest' = fw_rec
    /\ IF NoFrameYet(seq1')
         THEN r_pc' = "ret" /\ r_result' = "null"
         ELSE r_pc' = "load2" /\ r_result' = "none"
    /\ UNCHANGED <<frame_seq, frame_payload, fw_pc, fw_rec, fw_i,
                   seq2, r_j, r_obs, r_seen, r_prev_torn>>
    /\ UNCHANGED <<last_sequence, dvars, xvars>>

\* get_frame, second load; no byte of the payload is read between the two.
GetFrame_Load2 ==
    /\ r_pc = "load2"
    /\ seq2' = current_sequence
    /\ IF SequenceChanged(seq1, seq2')
         THEN r_pc' = "ret" /\ r_result' = "null" /\ r_j' = r_j
         ELSE r_pc' = "verify" /\ r_result' = "none" /\ r_j' = 1
    /\ UNCHANGED <<frame_seq, frame_payload, fw_pc, fw_rec, fw_i,
                   seq1, r_obs, r_seen, r_overlap, r_latest, r_prev_torn>>
    /\ UNCHANGED <<last_sequence, dvars, xvars>>

\* get_frame, the verifier reading the payload region, one cell per step;
\* after the last cell the verdict decides between nullptr and the view.
GetFrame_Verify ==
    /\ r_pc = "verify"
    /\ r_obs' = CopyCell(r_obs, frame_payload, r_j)
    /\ IF r_j = FrameRegion
         THEN /\ r_pc' = "ret"
              /\ r_result' = IF VerifyBuffer(r_obs', FrameRegion) THEN "view" ELSE "null"
              /\ r_j' = 1
         ELSE /\ r_pc' = "verify"
              /\ r_result' = "none"
              /\ r_j' = r_j + 1
    /\ UNCHANGED <<frame_seq, frame_payload, fw_pc, fw_rec, fw_i,
                   seq1, seq2, r_seen, r_overlap, r_latest, r_prev_torn>>
    /\ UNCHANGED <<last_sequence, dvars, xvars>>

\* get_frame returns: nullptr sends the caller back to its loop, a view is
\* a pointer into the mapping that the caller goes on to read.
GetFrame_ReturnCall ==
    /\ r_pc = "ret"
    /\ r_prev_torn' = (r_result = "null" /\ r_overlap)
    /\ r_pc' = IF r_result = "view" THEN "use" ELSE "idle"
    /\ r_j' = 1
    /\ r_obs' = Zeros(FrameRegion)
    /\ seq1' = 0
    /\ seq2' = 0
    /\ r_overlap' = FALSE
    /\ r_latest' = NoRecord
    /\ UNCHANGED <<frame_seq, frame_payload, fw_pc, fw_rec, fw_i, r_result, r_seen>>

\* get_frame returns with nothing else of the process moving.
GetFrame_Return ==
    /\ GetFrame_ReturnCall
    /\ UNCHANGED <<last_sequence, dvars, xvars>>

\* The caller reads the record's fields through the view, one cell per step.
UseView ==
    /\ r_pc = "use"
    /\ r_seen' = CopyCell(r_seen, frame_payload, r_j)
    /\ r_j' = r_j + 1
    /\ r_pc' = IF r_j = FrameRegion THEN "used" ELSE "use"
    /\ UNCHANGED <<frame_seq, frame_payload, fw_pc, fw_rec, fw_i,
                   seq1, seq2, r_obs, r_result, r_overlap, r_latest, r_prev_torn>>
    /\ UNCHANGED <<last_sequence, dvars, xvars>>

\* The caller is done with the view.
DropView ==
    /\ r_pc = "used"
    /\ r_pc' = "idle"
    /\ r_seen' = Zeros(FrameRegion)
    /\ r_result' = "none"
    /\ r_j' = 1
    /\ UNCHANGED <<frame_seq, frame_payload, fw_pc, fw_rec, fw_i,
                   seq1, seq2, r_obs, r_overlap, r_latest, r_prev_torn>>
    /\ UNCHANGED <<last_sequence, dvars, xvars>>

\* The system calls of FrameReader::with_path that may fail.
ReaderFailures == {"none", "open", "fstat", "mmap"}

\* FrameReader::with_path: open(O_RDONLY), fstat, mmap(PROT_READ, MAP_SHARED).
\* A failing call closes the descriptor and yields no reader; otherwise the
\* constructor starts the new reader with last_sequence_ = 0.  The mapping
\* is read-only: no store to the slot can come from here.
FR_WithPath(fail) ==
    /\ r_pc = "idle"
    /\ last_sequence' = IF fail = "none" THEN 0 ELSE last_sequence
    /\ UNCHANGED <<frame_seq, frame_payload, fw_pc, fw_rec, fw_i,
                   r_pc, seq1, seq2, r_j, r_obs, r_result, r_seen,
                   r_overlap, r_latest, r_prev_torn>>
    /\ UNCHANGED <<dvars, xvars>>

\* Mutant of MarkReadValue: one past the counter.
MarkReadAhead == current_sequence + 1

\* mark_read: "last_sequence_ = current_sequence()".
MarkReadValue == current_sequence

\* FrameReader::mark_read, called between two get_frame calls or while the
\* caller still holds the view.
MarkRead ==
    /\ r_pc \in {"idle", "used"}
    /\ last_sequence' = MarkReadValue
    /\ UNCHANGED <<frame_seq, frame_payload, fw_pc, fw_rec, fw_i,
                   r_pc, seq1, seq2, r_j, r_obs, r_result, r_seen,
                   r_overlap, r_latest, r_prev_torn>>
    /\ UNCHANGED <<dvars, xvars>>

FrameInit ==
    /\ frame_seq = 0
    /\ frame_payload = Zeros(FrameRegion)
    /\ fw_pc = "idle"
    /\ fw_rec = NoRecord
    /\ fw_i = 1
    /\ r_pc = "idle"
    /\ seq1 = 0
    /\ seq2 = 0
    /\ r_j = 1
    /\ r_obs = Zeros(FrameRegion)
    /\ r_result = "none"
    /\ r_seen = Zeros(FrameRegion)
    /\ r_overlap = FALSE
    /\ r_latest = NoRecord
    /\ r_prev_torn = FALSE
    /\ last_sequence = 0

FrameNext ==
    \/ \E len \in 1..FrameCells, ok \in BOOLEAN : FW_Begin(len, ok)
    \/ FW_Copy
    \/ FW_Bump
    \/ GetFrame_Load1
    \/ GetFrame_Load2
    \/ GetFrame_Verify
    \/ GetFrame_Return
    \/ UseView
    \/ DropView
    \/ \E fail \in ReaderFailures : FR_WithPath(fail)
    \/ MarkRead

----------------------------------------------------------------------------
(* Claims about the frame slot, checked under FrameSpec *)

\* C1 (torn-read rejection): a get_frame() during which a publication was
\* in progress (payload being mutated, counter not yet bumped) returns
\* nothing.
C1_TornReadRejected ==
    (r_pc = "ret" /\ r_overlap) => r_result = "null"

\* C2 (release-acquire visibility): the bytes the caller reads through a
\* returned view are the complete bytes of one single publication, never a
\* mixture of two.
C2_ViewIsOnePublication ==
    r_pc = "used" => IsOneRecord(r_seen)

\* C7 (conditions of a view): get_frame() returns a view exactly when the
\* first load was non-zero, the second load gave the same value and the
\* payload passed the verifier against the payload-region length; in every
\* other case it returns nothing.
C7_ViewIffChecked ==
    r_pc = "ret" =>
        /\ r_result \in {"view", "null"}
        /\ r_result = "view" <=>
              (seq1 # 0 /\ seq2 = seq1 /\ VerifyBuffer(r_obs, FrameRegion))

\* C7 witness: a call that returns a view.
C7_Witness ==
    r_pc = "ret" /\ r_result = "view" /\ seq1 >= 1

\* C8 (clean read succeeds): when the latest publication is complete and
\* valid and no publication overlaps the call, get_frame() returns a view
\* and the bytes behind it are those of that latest record.
C8_CleanReadSucceeds ==
    (r_pc = "ret" /\ ~r_overlap /\ r_latest.id >= 1 /\ r_latest.ok) =>
        /\ r_result = "view"
        /\ SubSeq(r_obs, 1, r_latest.len) = RecordBytes(r_latest)
        /\ r_latest.id = seq1

\* C8 witness: a clean successful read right after a call that returned
\* nothing because a publication overlapped it.
C8_Witness ==
    /\ r_pc = "ret"
    /\ ~r_overlap
    /\ r_result = "view"
    /\ r_prev_torn
    /\ r_latest.id >= 2

\* A step of one of FrameReader's operations: with_path, get_frame (its
\* loads, its verifier, its return), mark_read.  current_sequence is the
\* load inside get_frame and mark_read.
FrameReaderStep ==
    \/ \E fail \in ReaderFailures : FR_WithPath(fail)
    \/ GetFrame_Load1
    \/ GetFrame_Load2
    \/ GetFrame_Verify
    \/ GetFrame_Return
    \/ MarkRead

\* C11 (reader effects): no operation of FrameReader changes the counter or
\* the payload of the frame slot, and mark_read changes last_sequence only,
\* to the value the counter has when mark_read loads it.
C11_ReaderLeavesSlot ==
    [][ /\ FrameReaderStep =>
            (frame_seq' = frame_seq /\ frame_payload' = frame_payload)
        /\ MarkRead =>
            /\ last_sequence' = frame_seq
            /\ UNCHANGED <<r_pc, seq1, seq2, r_j, r_obs, r_result, r_seen>>
      ]_vars

\* mark_read has run after the counter moved past what get_frame loaded:
\* last_sequence is the counter now, and the caller still holds its view.
C11_Witness ==
    /\ r_pc = "used"
    /\ last_sequence = frame_seq
    /\ last_sequence >= 2

----------------------------------------------------------------------------
(* Detection slot: DetectionWriter::with_path *)

\* DEFAULT_BUFFER_SIZE is 1 MiB in the source; the model keeps its role (the
\* size a created file is truncated to, and the size with_path compares
\* st_size with) and scales the payload region down to DefaultPayload cells.
DEFAULT_BUFFER_SIZE == HEADER_SIZE + DefaultPayload

\* The sizes a backing file created by another process may have.
PeerSizes == {HEADER_SIZE + k : k \in 1..(DefaultPayload + 1)}

\* The system calls of with_path that may fail.
Failures == {"none", "open", "create", "ftruncate", "fstat", "mmap"}

\* ftruncate(fd, DEFAULT_BUFFER_SIZE) on the file just created.
TruncatedSize == DEFAULT_BUFFER_SIZE

\* "if (st.st_size == DEFAULT_BUFFER_SIZE)": the test with_path uses for
\* "this is a new file".
LooksNew(st_size) == st_size = DEFAULT_BUFFER_SIZE

\* Mutant of InitialSequence: the counter of a new file starts at one.
InitialSequenceOne == 0 + 1

\* The value with_path stores into the counter of a file that looks new.
InitialSequence == 0

\* Number of payload cells of a file of the given size.
Region(size) == IF size > HEADER_SIZE THEN size - HEADER_SIZE ELSE 0

\* with_path, as one step: open, (create, ftruncate), fstat, mmap, store.
\* fail names the system call that fails in this call, if any; the writer
\* object of an earlier call is replaced by the result.
WithPathCall(fail) ==
    /\ w_pc = "idle"
    /\ LET creates    == ~det_exists /\ fail \notin {"open", "create"}
           truncated  == creates /\ fail # "ftruncate"
           exists1    == det_exists \/ creates
           size1      == IF creates
                           THEN (IF truncated THEN TruncatedSize ELSE 0)
                           ELSE det_size
           payload1   == IF creates THEN Zeros(Region(size1)) ELSE det_payload
           seq1f      == IF creates THEN 0 ELSE det_seq
           mapped     == /\ exists1
                         /\ fail = "none"
                         /\ size1 > 0
       IN
        /\ det_exists' = exists1
        /\ det_size' = size1
        /\ det_payload' = payload1
        /\ det_seq' = IF mapped /\ LooksNew(size1) THEN InitialSequence ELSE seq1f
        /\ w_open' = mapped
        /\ mmap_size' = IF mapped THEN size1 ELSE 0
        /\ w_fresh' = (mapped /\ creates)
    /\ w_wrote' = FALSE
    /\ w_ret' = "none"
    /\ UNCHANGED <<w_pc, w_rec, w_i, old_seq, w_entry_seq, w_entry_payload,
                   c_pc, c_s1, c_j, c_obs, c_accept, observed>>

\* with_path called with nothing else of the process moving.
WithPath(fail) ==
    /\ WithPathCall(fail)
    /\ UNCHANGED <<fvars, xvars>>

\* ~DetectionWriter: munmap and close; the backing file persists.
Destroy ==
    /\ w_open
    /\ w_pc = "idle"
    /\ w_open' = FALSE
    /\ mmap_size' = 0
    /\ w_fresh' = FALSE
    /\ w_wrote' = FALSE
    /\ w_ret' = "none"
    /\ UNCHANGED <<det_exists, det_size, det_seq, det_payload,
                   w_pc, w_rec, w_i, old_seq, w_entry_seq, w_entry_payload,
                   c_pc, c_s1, c_j, c_obs, c_accept, observed>>
    /\ UNCHANGED <<fvars, xvars>>

\* Another process creates the backing file first (zero-filled, its own size).
PeerCreate(size) ==
    /\ ~det_exists
    /\ w_pc = "idle"
    /\ det_exists' = TRUE
    /\ det_size' = size
    /\ det_seq' = 0
    /\ det_payload' = Zeros(Region(size))
    /\ UNCHANGED <<w_open, mmap_size, w_pc, w_rec, w_i, old_seq, w_ret,
                   w_entry_seq, w_entry_payload, w_fresh, w_wrote,
                   c_pc, c_s1, c_j, c_obs, c_accept, observed>>
    /\ UNCHANGED <<fvars, xvars>>

\* The backing file is unlinked while no process has it mapped.
Unlink ==
    /\ det_exists
    /\ ~w_open
    /\ c_pc = "idle"
    /\ det_exists' = FALSE
    /\ det_size' = 0
    /\ det_seq' = 0
    /\ det_payload' = <<>>
    /\ observed' = 0
    /\ UNCHANGED <<w_open, mmap_size, w_pc, w_rec, w_i, old_seq, w_ret,
                   w_entry_seq, w_entry_payload, w_fresh, w_wrote,
                   c_pc, c_s1, c_j, c_obs, c_accept>>
    /\ UNCHANGED <<fvars, xvars>>

----------------------------------------------------------------------------
(* Detection slot: DetectionWriter::write and sequence *)

\* The FlatBuffer built from write's arguments: one cell for the
\* DetectionResult table and one per BoundingBox; builder.GetSize() is its
\* length.
DetectionRecord(frame_number, n) == [id |-> frame_number, len |-> 1 + n, ok |-> TRUE]

\* Mutant of TooLarge: a record that fits exactly is refused.
TooLargeOrEqual(required_size, size) == required_size >= size

\* "if (required_size > mmap_size_) return false"
TooLarge(required_size, size) == required_size > size

\* Mutant of NextSeq: the counter skips a value.
NextSeqSkip(old) == old + 2

\* "seq_ptr->store(old_seq + 1, release)"
NextSeq(old) == old + 1

\* write: build the record and check that it fits.
Write_Begin(frame_number, n) ==
    /\ w_open
    /\ w_pc = "idle"
    /\ det_seq < MaxSeq
    /\ LET rec == DetectionRecord(frame_number, n)
           required_size == HEADER_SIZE + Len(RecordBytes(rec))
       IN
        /\ w_rec' = rec
        /\ IF TooLarge(required_size, mmap_size)
             THEN w_pc' = "ret" /\ w_ret' = "fail"
             ELSE w_pc' = "copy" /\ w_ret' = "none"
    /\ w_i' = 1
    /\ w_entry_seq' = det_seq
    /\ w_entry_payload' = det_payload
    /\ UNCHANGED <<det_exists, det_size, det_seq, det_payload,
                   w_open, mmap_size, old_seq, w_fresh, w_wrote,
                   c_pc, c_s1, c_j, c_obs, c_accept, observed>>
    /\ UNCHANGED <<fvars, xvars>>

\* write: memcpy of the record to offset 8, one cell per step.
Write_Copy ==
    /\ w_pc = "copy"
    /\ det_payload' = CopyCell(det_payload, RecordBytes(w_rec), w_i)
    /\ w_i' = w_i + 1
    /\ w_pc' = IF w_i = w_rec.len THEN "load" ELSE "copy"
    /\ UNCHANGED <<det_exists, det_size, det_seq,
                   w_open, mmap_size, w_rec, old_seq, w_ret,
                   w_entry_seq, w_entry_payload, w_fresh, w_wrote,
                   c_pc, c_s1, c_j, c_obs, c_accept, observed>>
    /\ UNCHANGED <<fvars, xvars>>

\* write: "old_seq = seq_ptr->load(relaxed)"
Write_LoadSeq ==
    /\ w_pc = "load"
    /\ old_seq' = det_seq
    /\ w_pc' = "store"
    /\ UNCHANGED <<det_exists, det_size, det_seq, det_payload,
                   w_open, mmap_size, w_rec, w_i, w_ret,
                   w_entry_seq, w_entry_payload, w_fresh, w_wrote,
                   c_pc, c_s1, c_j, c_obs, c_accept, observed>>
    /\ UNCHANGED <<fvars, xvars>>

\* write: the release-store of the new counter, then "return true".
Write_StoreSeq ==
    /\ w_pc = "store"
    /\ det_seq' = NextSeq(old_seq)
    /\ w_pc' = "ret"
    /\ w_ret' = "ok"
    /\ w_wrote' = TRUE
    /\ UNCHANGED <<det_exists, det_size, det_payload,
                   w_open, mmap_size, w_rec, w_i, old_seq,
                   w_entry_seq, w_entry_payload, w_fresh,
                   c_pc, c_s1, c_j, c_obs, c_accept, observed>>
    /\ UNCHANGED <<fvars, xvars>>

\* write has returned to its caller.
Write_Return ==
    /\ w_pc = "ret"
    /\ w_pc' = "idle"
    /\ w_ret' = "none"
    /\ w_rec' = NoRecord
    /\ w_i' = 1
    /\ w_entry_seq' = 0
    /\ w_entry_payload' = <<>>
    /\ old_seq' = 0
    /\ UNCHANGED <<det_exists, det_size, det_seq, det_payload,
                   w_open, mmap_size, w_fresh, w_wrote,
                   c_pc, c_s1, c_j, c_obs, c_accept, observed>>
    /\ UNCHANGED <<fvars, xvars>>

\* DetectionWriter::sequence: acquire-load of the counter.
Sequence ==
    /\ w_open
    /\ observed' = det_seq
    /\ observed' # observed
    /\ UNCHANGED <<det_exists, det_size, det_seq, det_payload,
                   w_open, mmap_size, w_pc, w_rec, w_i, old_seq, w_ret,
                   w_entry_seq, w_entry_payload, w_fresh, w_wrote,
                   c_pc, c_s1, c_j, c_obs, c_accept>>
    /\ UNCHANGED <<fvars, xvars>>

----------------------------------------------------------------------------
(* Detection slot: a reader that follows the double-check protocol *)

\* Acquire-load s1.
C_Load1 ==
    /\ c_pc = "idle"
    /\ det_exists
    /\ Region(det_size) >= 1
    /\ c_s1' = det_seq
    /\ c_obs' = Zeros(Region(det_size))
    /\ c_j' = 1
    /\ c_pc' = "read"
    /\ c_accept' = FALSE
    /\ UNCHANGED <<det_exists, det_size, det_seq, det_payload,
                   w_open, mmap_size, w_pc, w_rec, w_i, old_seq, w_ret,
                   w_entry_seq, w_entry_payload, w_fresh, w_wrote, observed>>
    /\ UNCHANGED <<fvars, xvars>>

\* Read the payload, one cell per step.
C_Read ==
    /\ c_pc = "read"
    /\ c_obs' = CopyCell(c_obs, det_payload, c_j)
    /\ c_j' = c_j + 1
    /\ c_pc' = IF c_j = Len(c_obs) THEN "load2" ELSE "read"
    /\ UNCHANGED <<det_exists, det_size, det_seq, det_payload,
                   w_open, mmap_size, w_pc, w_rec, w_i, old_seq, w_ret,
                   w_entry_seq, w_entry_payload, w_fresh, w_wrote,
                   c_s1, c_accept, observed>>
    /\ UNCHANGED <<fvars, xvars>>

\* Acquire-load s2 and accept iff s1 = s2 and s1 # 0.
C_Load2 ==
    /\ c_pc = "load2"
    /\ c_accept' = (c_s1 = det_seq /\ c_s1 # 0)
    /\ c_pc' = "done"
    /\ UNCHANGED <<det_exists, det_size, det_seq, det_payload,
                   w_open, mmap_size, w_pc, w_rec, w_i, old_seq, w_ret,
                   w_entry_seq, w_entry_payload, w_fresh, w_wrote,
                   c_s1, c_j, c_obs, observed>>
    /\ UNCHANGED <<fvars, xvars>>

\* The reader is done with what it read.
C_Done ==
    /\ c_pc = "done"
    /\ c_pc' = "idle"
    /\ c_s1' = 0
    /\ c_j' = 1
    /\ c_obs' = <<>>
    /\ c_accept' = FALSE
    /\ UNCHANGED <<det_exists, det_size, det_seq, det_payload,
                   w_open, mmap_size, w_pc, w_rec, w_i, old_seq, w_ret,
                   w_entry_seq, w_entry_payload, w_fresh, w_wrote, observed>>
    /\ UNCHANGED <<fvars, xvars>>

----------------------------------------------------------------------------
(* BridgeSemaphore: open, create and the destructor, on one queue name *)

\* The processes that may call open or create on the name.
Procs == 1..2

Other(p) == 3 - p

\* BridgeSemaphore::open: mq_open(name, O_RDWR).  It attaches to the queue
\* the name refers to; with no such queue, or on any other failure of
\* mq_open, it yields no handle.
Sem_Open(p, fail) ==
    /\ h_pc[p] = "start"
    /\ mqd' = [mqd EXCEPT ![p] = IF fail \/ mq_bound = 0 THEN 0 ELSE mq_bound]
    /\ h_pc' = [h_pc EXCEPT ![p] = "done"]
    /\ h_call' = [h_call EXCEPT ![p] = "open"]
    /\ UNCHANGED <<mq_bound, mq_count, h_conc>>
    /\ UNCHANGED <<fvars, dvars, pvars, uvars>>

\* BridgeSemaphore::create, first call: "mq_unlink(name)", result ignored.
\* The name is free afterwards; a queue another process has open lives on
\* without a name.
Sem_CreateUnlink(p) ==
    /\ h_pc[p] = "start"
    /\ mq_count < MaxQueues
    /\ mq_bound' = 0
    /\ h_pc' = [h_pc EXCEPT ![p] = "unlinked"]
    /\ h_call' = [h_call EXCEPT ![p] = "create"]
    /\ h_conc' = IF h_pc[Other(p)] = "unlinked"
                   THEN [q \in Procs |-> TRUE]
                   ELSE [h_conc EXCEPT ![p] = FALSE]
    /\ UNCHANGED <<mq_count, mqd>>
    /\ UNCHANGED <<fvars, dvars, pvars, uvars>>

\* BridgeSemaphore::create, second call:
\* "mq_open(name, O_CREAT | O_EXCL | O_RDWR, 0660, &attr)".  With O_EXCL the
\* call makes a new queue or fails (EEXIST when the name is taken); a
\* failure yields no handle.
Sem_CreateOpen(p, fail) ==
    /\ h_pc[p] = "unlinked"
    /\ IF fail \/ mq_bound # 0
         THEN /\ mqd' = [mqd EXCEPT ![p] = 0]
              /\ UNCHANGED <<mq_bound, mq_count>>
         ELSE /\ mq_count' = mq_count + 1
              /\ mq_bound' = mq_count + 1
              /\ mqd' = [mqd EXCEPT ![p] = mq_count + 1]
    /\ h_pc' = [h_pc EXCEPT ![p] = "done"]
    /\ UNCHANGED <<h_call, h_conc>>
    /\ UNCHANGED <<fvars, dvars, pvars, uvars>>

\* ~BridgeSemaphore: "if (mqd_ != (mqd_t)-1) mq_close(mqd_)"; the process
\* may then call open or create again.
Sem_Close(p) ==
    /\ h_pc[p] = "done"
    /\ mqd' = [mqd EXCEPT ![p] = 0]
    /\ h_pc' = [h_pc EXCEPT ![p] = "start"]
    /\ h_call' = [h_call EXCEPT ![p] = "none"]
    /\ h_conc' = [h_conc EXCEPT ![p] = FALSE]
    /\ UNCHANGED <<mq_bound, mq_count>>
    /\ UNCHANGED <<fvars, dvars, pvars, uvars>>

MqInit ==
    /\ mq_bound = 0
    /\ mq_count = 0
    /\ h_pc = [p \in Procs |-> "start"]
    /\ h_call = [p \in Procs |-> "none"]
    /\ mqd = [p \in Procs |-> 0]
    /\ h_conc = [p \in Procs |-> FALSE]

\* Two processes opening, creating and closing handles on the name.
MqNext ==
    \/ \E p \in Procs, fail \in BOOLEAN : Sem_Open(p, fail)
    \/ \E p \in Procs : Sem_CreateUnlink(p)
    \/ \E p \in Procs, fail \in BOOLEAN : Sem_CreateOpen(p, fail)
    \/ \E p \in Procs : Sem_Close(p)

----------------------------------------------------------------------------
(* The signalling queues of the event loop *)

\* create: "attr.mq_maxmsg = 10", the capacity of a signalling queue.
MQ_MAXMSG == QueueCap

\* mq_send can enqueue at once: the queue holds fewer than mq_maxmsg.
MqHasRoom(n) == n < MQ_MAXMSG

\* Mutant of MqReceive: the message stays in the queue.
MqReceiveNothing(q) == q

\* mq_receive / mq_timedreceive on a queue with a message: the oldest
\* message leaves the queue.
MqReceive(q) == Tail(q)

\* What the loop has done so far: its counters, the detection slot, the
\* reader's last_sequence, its posts and its successful writes.
DoneSoFar ==
    [processed |-> frames_processed, detections |-> total_detections,
     seq |-> det_seq, payload |-> det_payload, last |-> last_sequence,
     posts |-> g_posts, writes |-> g_writes]

\* The first moment of a loop iteration: wait() is entered.
WaitEntry ==
    /\ g_k' = Len(fq)
    /\ g_arrived' = FALSE
    /\ g_done' = 0
    /\ g_at_wait' = DoneSoFar
    /\ g_skipped' = FALSE

\* The loop is between the entry of wait() and the return of drain().
InWaitDrain == p_pc \in {"wait", "waited", "drain", "trywaited"}

\* capture, after a publication: one post to the frame queue.  A post to a
\* full queue fails and the signal is dropped.
Cap_Post ==
    /\ fw_pc = "idle"
    /\ cap_posts < frame_seq
    /\ cap_posts' = frame_seq
    /\ IF MqHasRoom(Len(fq))
         THEN /\ fq' = Append(fq, frame_seq)
              /\ g_arrived' = (g_arrived \/ InWaitDrain)
         ELSE UNCHANGED <<fq, g_arrived>>
    /\ UNCHANGED <<cq, lvars, kvars, g_k, g_done, g_wait_seq, g_prev_stamp>>
    /\ UNCHANGED <<fvars, dvars, cvars, uvars, hvars>>

\* capture publishes the next frame once it has posted for the last one.
Cap_Begin(len, ok) ==
    /\ cap_posts = frame_seq
    /\ FW_Begin(len, ok)

\* The consumer of the controller queue takes one token.
Ctl_Receive ==
    /\ cq > 0
    /\ cq' = cq - 1
    /\ UNCHANGED <<fq, cap_posts, lvars, kvars, gvars>>
    /\ UNCHANGED <<fvars, dvars, cvars, uvars, hvars>>

----------------------------------------------------------------------------
(* main: start of the process *)

\* main: DetectionWriter::build() while the loop has not started.
P_BuildWriter(fail) ==
    /\ p_pc = "start"
    /\ ~w_open
    /\ WithPath(fail)

\* main: the detection buffer is connected; the loop is entered.
P_Built ==
    /\ p_pc = "start"
    /\ w_open
    /\ p_pc' = "wait"
    /\ WaitEntry
    /\ UNCHANGED <<qvars, p_ret, p_errno, count, p_ndet, kvars, g_wait_seq, g_prev_stamp>>
    /\ UNCHANGED <<fvars, dvars, cvars, uvars, drainvars, g_posts, g_writes>>

----------------------------------------------------------------------------
(* main: frame_semaphore.wait() and frame_semaphore.drain() *)

\* wait: mq_receive returns a message; "return true".
P_WaitReceive ==
    /\ p_pc = "wait"
    /\ fq # <<>>
    /\ fq' = MqReceive(fq)
    /\ p_ret' = "true"
    /\ p_pc' = "waited"
    /\ g_wait_seq' = frame_seq
    /\ g_prev_stamp' = Head(fq)
    /\ UNCHANGED <<cq, cap_posts, p_errno, count, p_ndet, kvars, g_k, g_arrived, g_done>>
    /\ UNCHANGED <<fvars, dvars, cvars, uvars, hvars>>

\* Mutant of IsInterrupt: no error is taken for an interrupt.
IsInterruptNever(e) == FALSE

\* wait: "if (errno == EINTR)".
IsInterrupt(e) == e = "EINTR"

\* wait: mq_receive fails with errno e: EINTR when a signal interrupts the
\* call blocked on the empty queue, or another error.  "if (errno == EINTR)
\* continue;", otherwise the error is logged and wait returns false.
P_WaitFail(e) ==
    /\ p_pc = "wait"
    /\ e = "EINTR" => fq = <<>>
    /\ p_errno' = e
    /\ IF IsInterrupt(e)
         THEN UNCHANGED <<p_pc, p_ret>>
         ELSE p_ret' = "false" /\ p_pc' = "waited"
    /\ UNCHANGED <<qvars, count, p_ndet, kvars, gvars>>
    /\ UNCHANGED <<fvars, dvars, cvars, uvars, hvars>>

\* main: "if (!frame_semaphore.wait()) { sleep 100 ms; continue; }",
\* otherwise drain() starts with count = 0.
P_AfterWait ==
    /\ p_pc = "waited"
    /\ IF p_ret = "true"
         THEN /\ p_pc' = "drain"
              /\ UNCHANGED <<g_k, g_arrived, g_done, g_at_wait, g_skipped>>
         ELSE /\ p_pc' = "wait"
              /\ WaitEntry
    /\ p_ret' = "none"
    /\ p_errno' = "none"
    /\ count' = 0
    /\ g_n' = IF p_ret = "true" THEN Len(fq) ELSE 0
    /\ g_taken' = 0
    /\ g_empty' = FALSE
    /\ UNCHANGED <<qvars, p_ndet, kvars, g_wait_seq, g_prev_stamp, g_posts, g_writes>>
    /\ UNCHANGED <<fvars, dvars, cvars, uvars>>

\* The result of mq_timedreceive with the zero timeout: the length of the
\* message (1) when there is one and the call does not fail, -1 otherwise.
\* The call does not wait for a message.
TimedReceive(q, err) == IF ~err /\ q # <<>> THEN 1 ELSE 0 - 1

\* Mutant of Received: a failed call counts as a message.
ReceivedOrFailed(result) == result >= 0 - 1

\* try_wait: "if (result >= 0) return true".
Received(result) == result >= 0

\* try_wait: mq_timedreceive with the zero timeout.  It returns a message
\* when there is one, ETIMEDOUT at once when there is none, or another
\* error; "if (result >= 0) return true", false in the two other cases.
P_TryWait(err) ==
    /\ p_pc = "drain"
    /\ LET result == TimedReceive(fq, err) IN
        /\ fq' = IF result >= 0 THEN MqReceive(fq) ELSE fq
        /\ p_ret' = IF Received(result) THEN "true" ELSE "false"
        /\ p_errno' = IF result >= 0 THEN p_errno
                      ELSE IF err THEN "EOTHER" ELSE "ETIMEDOUT"
        /\ g_taken' = IF result >= 0 THEN g_taken + 1 ELSE g_taken
        /\ g_empty' = (fq = <<>>)
    /\ p_pc' = "trywaited"
    /\ UNCHANGED <<cq, cap_posts, count, p_ndet, kvars, gvars, g_n, itervars>>
    /\ UNCHANGED <<fvars, dvars, cvars, uvars>>

\* Mutant of DrainCount: a received token is not counted.
DrainCountStuck(c) == c

\* drain: "count++".
DrainCount(c) == c + 1

\* Mutant of DrainGoesOn: drain returns after its first try_wait.
DrainGoesOnNever(ret) == FALSE

\* drain: "while (try_wait())".
DrainGoesOn(ret) == ret = "true"

\* drain: "while (try_wait()) count++; return count;" and, in main,
\* "if (skipped > 0) frames_skipped += skipped".
P_DrainStep ==
    /\ p_pc = "trywaited"
    /\ IF DrainGoesOn(p_ret)
         THEN /\ count' = DrainCount(count)
              /\ p_pc' = "drain"
              /\ UNCHANGED <<frames_skipped, g_arrived, p_errno, g_n, g_taken>>
         ELSE /\ frames_skipped' = frames_skipped + count
              /\ count' = 0
              /\ p_pc' = "frame"
              /\ p_errno' = "none"
              /\ g_arrived' = FALSE
              /\ g_n' = 0
              /\ g_taken' = 0
    /\ g_empty' = FALSE
    /\ p_ret' = "none"
    /\ UNCHANGED <<qvars, p_ndet, frames_processed, total_detections,
                   g_k, g_done, g_wait_seq, g_prev_stamp, itervars>>
    /\ UNCHANGED <<fvars, dvars, cvars, uvars>>

----------------------------------------------------------------------------
(* main: one frame through the loop *)

\* The reader-side variables get_frame and its caller own, last_sequence
\* apart.
rvars == <<r_pc, seq1, seq2, r_j, r_obs, r_result, r_seen, r_overlap, r_latest, r_prev_torn>>

\* capture's side of the frame slot.
svars == <<frame_seq, frame_payload, fw_pc, fw_rec, fw_i>>

\* main: "if (!frame) { ...; continue; }".
P_NoFrame ==
    /\ p_pc = "frame"
    /\ r_pc = "idle"
    /\ r_result = "null"
    /\ r_result' = "none"
    /\ p_pc' = "wait"
    /\ WaitEntry
    /\ UNCHANGED <<svars, r_pc, seq1, seq2, r_j, r_obs, r_seen, r_overlap, r_latest,
                   r_prev_torn, last_sequence>>
    /\ UNCHANGED <<qvars, p_ret, p_errno, count, p_ndet, kvars, g_wait_seq, g_prev_stamp>>
    /\ UNCHANGED <<dvars, cvars, uvars, drainvars, g_posts, g_writes>>

\* main: "frame->frame_number()" (with timestamp_ns and camera_id, the
\* fields of the record's first cell) as read through the view.
FrameNum == r_seen[1].id

\* main: "frame->pixels()" is non-null: the record read through the view
\* has a pixel vector, its second cell.
HasPixels == r_seen[1].len >= 2

\* The record whose pixel bytes preprocess read through the view.
PixelsOf == r_seen[2].id

\* Mutant of Continue: the iteration goes on to the write.
ContinueFallsThrough == "write"

\* main: "continue;" once the frame is held: the iteration ends, the view
\* is destroyed on the way out.
Continue == "drop"

\* main: "if (!pixels) { ...; continue; }", after the fields were read.
P_CheckPixels ==
    /\ p_pc = "frame"
    /\ r_pc = "used"
    /\ p_pc' = IF HasPixels THEN "infer" ELSE Continue
    /\ g_skipped' = ~HasPixels
    /\ UNCHANGED <<qvars, p_ret, p_errno, count, p_ndet, kvars, gvars>>
    /\ UNCHANGED <<fvars, dvars, cvars, uvars, drainvars, g_posts, g_writes, g_at_wait>>

\* main: preprocess, backend.infer and parse_detections.  A failed
\* inference ends the iteration; otherwise n detections come out.
P_Infer(ok, n) ==
    /\ p_pc = "infer"
    /\ IF ok
         THEN p_pc' = "write" /\ p_ndet' = n
         ELSE p_pc' = Continue /\ p_ndet' = 0
    /\ g_skipped' = ~ok
    /\ UNCHANGED <<qvars, p_ret, p_errno, count, kvars, gvars>>
    /\ UNCHANGED <<fvars, dvars, cvars, uvars, drainvars, g_posts, g_writes, g_at_wait>>

\* main: "detection_writer.write(frame_num, timestamp_ns, camera_id,
\* detections)" is entered.
P_Write ==
    /\ p_pc = "write"
    /\ Write_Begin(FrameNum, p_ndet)

\* main: write() is at its return; a failure is logged and nothing else.
P_Written ==
    /\ p_pc = "write"
    /\ w_pc = "ret"
    /\ p_pc' = "written"
    /\ g_writes' = IF w_ret = "ok" THEN g_writes + 1 ELSE g_writes
    /\ UNCHANGED <<qvars, p_ret, p_errno, count, p_ndet, kvars, gvars>>
    /\ UNCHANGED <<fvars, dvars, cvars, uvars, drainvars, g_posts, g_at_wait, g_skipped>>

\* main: "total_detections += detections.size()".
P_Count ==
    /\ p_pc = "written"
    /\ w_pc = "idle"
    /\ total_detections' = total_detections + p_ndet
    /\ p_pc' = "post"
    /\ g_posts' = g_posts + 1
    /\ UNCHANGED <<qvars, p_ret, p_errno, count, p_ndet,
                   frames_processed, frames_skipped, gvars>>
    /\ UNCHANGED <<fvars, dvars, cvars, uvars, drainvars, g_writes, g_at_wait, g_skipped>>

\* post: mq_send on a queue with room enqueues the token; "return true".
\* The queue was opened without O_NONBLOCK, so on a full queue mq_send
\* does not return: this step is not enabled.
P_PostSend ==
    /\ p_pc = "post"
    /\ MqHasRoom(cq)
    /\ cq' = cq + 1
    /\ p_ret' = "true"
    /\ p_pc' = "posted"
    /\ UNCHANGED <<fq, cap_posts, p_errno, count, p_ndet, kvars, gvars>>
    /\ UNCHANGED <<fvars, dvars, cvars, uvars, hvars>>

\* post: mq_send, blocked on the full queue, is interrupted by a signal;
\* "mq_send failed" is logged, "return false".
P_PostEintr ==
    /\ p_pc = "post"
    /\ ~MqHasRoom(cq)
    /\ p_ret' = "false"
    /\ p_errno' = "EINTR"
    /\ p_pc' = "posted"
    /\ UNCHANGED <<qvars, count, p_ndet, kvars, gvars>>
    /\ UNCHANGED <<fvars, dvars, cvars, uvars, hvars>>

\* main: a failed post is logged; "frames_processed++;
\* frame_reader.mark_read();".
P_MarkRead ==
    /\ p_pc = "posted"
    /\ frames_processed' = frames_processed + 1
    /\ last_sequence' = MarkReadValue
    /\ p_pc' = "drop"
    /\ p_ret' = "none"
    /\ p_errno' = "none"
    /\ g_done' = g_done + 1
    /\ UNCHANGED <<qvars, count, p_ndet, frames_skipped, total_detections,
                   g_k, g_arrived, g_wait_seq, g_prev_stamp>>
    /\ UNCHANGED <<svars, rvars>>
    /\ UNCHANGED <<dvars, cvars, uvars, hvars>>

\* main: the iteration is over, by its end or by a continue; wait() is
\* entered again.
P_Loop ==
    /\ p_pc = "drop"
    /\ r_pc = "idle"
    /\ p_pc' = "wait"
    /\ p_ndet' = 0
    /\ WaitEntry
    /\ UNCHANGED <<qvars, p_ret, p_errno, count, kvars, g_wait_seq, g_prev_stamp>>
    /\ UNCHANGED <<fvars, dvars, cvars, uvars, drainvars, g_posts, g_writes>>

PInit ==
    /\ fq = <<>>
    /\ cq = 0
    /\ cap_posts = 0
    /\ p_pc = "start"
    /\ p_ret = "none"
    /\ p_errno = "none"
    /\ count = 0
    /\ p_ndet = 0
    /\ frames_processed = 0
    /\ frames_skipped = 0
    /\ total_detections = 0
    /\ g_n = 0
    /\ g_taken = 0
    /\ g_empty = FALSE
    /\ g_posts = 0
    /\ g_writes = 0
    /\ g_skipped = FALSE
    /\ g_at_wait = [processed |-> 0, detections |-> 0, seq |-> 0,
                    payload |-> <<>>, last |-> 0,
                    posts |-> 0, writes |-> 0]
    /\ g_k = 0
    /\ g_arrived = FALSE
    /\ g_done = 0
    /\ g_wait_seq = 0
    /\ g_prev_stamp = 0

\* The steps of main's loop that need nothing from outside the process,
\* for an inference that yields a number of detections in Dets.
LoopStep(Dets) ==
    \/ P_Built
    \/ P_WaitReceive
    \/ P_AfterWait
    \/ P_TryWait(FALSE)
    \/ P_DrainStep
    \/ (p_pc = "frame" /\ r_result = "none" /\ GetFrame_Load1)
    \/ (p_pc = "frame" /\ GetFrame_Load2)
    \/ (p_pc = "frame" /\ GetFrame_Verify)
    \/ (p_pc = "frame" /\ GetFrame_Return)
    \/ (p_pc = "frame" /\ UseView)
    \/ P_NoFrame
    \/ P_CheckPixels
    \/ \E n \in Dets : P_Infer(TRUE, n)
    \/ P_Write
    \/ (p_pc = "write" /\ Write_Copy)
    \/ (p_pc = "write" /\ Write_LoadSeq)
    \/ (p_pc = "write" /\ Write_StoreSeq)
    \/ P_Written
    \/ (p_pc = "written" /\ Write_Return)
    \/ P_Count
    \/ P_PostSend
    \/ P_MarkRead
    \/ (p_pc = "drop" /\ DropView)
    \/ P_Loop

\* get_frame returns to main; the sequence number it read under is noted.
P_GetFrameReturns ==
    /\ GetFrame_ReturnCall
    /\ g_read_seq' = IF r_result = "view" THEN seq1 ELSE g_read_seq
    /\ UNCHANGED <<last_sequence, dvars, cvars, pvars, tvars, avars, startvars, viewvars, lifevars>>

\* What comes from outside the loop: failing calls, signals, capture
\* publishing frames of the lengths in Lens (well formed or not, as in Oks)
\* and posting, and the consumer of the controller queue.
Outside(Lens, Oks) ==
    \/ \E fail \in Failures : P_BuildWriter(fail)
    \/ \E e \in {"EINTR", "EOTHER"} : P_WaitFail(e)
    \/ P_TryWait(TRUE)
    \/ P_Infer(FALSE, 0)
    \/ P_PostEintr
    \/ \E len \in Lens, ok \in Oks : Cap_Begin(len, ok)
    \/ FW_Copy
    \/ FW_Bump
    \/ Cap_Post
    \/ Ctl_Receive

PipeStep == LoopStep(0..MaxDet)

\* The event loop with every frame capture may publish and every number of
\* detections.
PipeNext == PipeStep \/ Outside(1..FrameCells, BOOLEAN)

SignalStep == LoopStep({0})

\* The event loop with a capture that publishes complete, well-formed
\* frames and an inference that finds nothing in them: the signalling is
\* the same, the slots hold fewer different records.
SignalNext == SignalStep \/ Outside({FrameCells}, {TRUE})

\* The event loop with a capture that publishes well-formed frames,
\* complete ones and ones without pixels (the first cell alone).
SkipNext == SignalStep \/ Outside({1, FrameCells}, {TRUE})

\* The steps of the signalling loop, with the history of what get_frame
\* read.
MarkStep ==
    \/ P_Built
    \/ P_WaitReceive
    \/ P_AfterWait
    \/ P_TryWait(FALSE)
    \/ P_DrainStep
    \/ (p_pc = "frame" /\ r_result = "none" /\ GetFrame_Load1)
    \/ (p_pc = "frame" /\ GetFrame_Load2)
    \/ (p_pc = "frame" /\ GetFrame_Verify)
    \/ (p_pc = "frame" /\ P_GetFrameReturns)
    \/ (p_pc = "frame" /\ UseView)
    \/ P_NoFrame
    \/ P_CheckPixels
    \/ P_Infer(TRUE, 0)
    \/ P_Write
    \/ (p_pc = "write" /\ Write_Copy)
    \/ (p_pc = "write" /\ Write_LoadSeq)
    \/ (p_pc = "write" /\ Write_StoreSeq)
    \/ P_Written
    \/ (p_pc = "written" /\ Write_Return)
    \/ P_Count
    \/ P_PostSend
    \/ P_MarkRead
    \/ (p_pc = "drop" /\ DropView)
    \/ P_Loop

MarkNext == MarkStep \/ Outside({FrameCells}, {TRUE})

----------------------------------------------------------------------------
(* float: IEEE binary32 arithmetic, as preprocess and parse_detections use it *)

\* A finite float is s * m * 2^e with the sign s in {1, -1} and the 24-bit
\* significand 2^23 <= m < 2^24, or zero.  Exponents stay far from the
\* ends of the binary32 range for the sizes of images, so overflow and
\* subnormal numbers do not come up.
FZero == [s |-> 1, m |-> 0, e |-> 0]

\* A score that is not a number: every comparison with it is false.
NaN == [s |-> 0, m |-> 0, e |-> 0]

RECURSIVE Normalize(_, _, _)
Normalize(s, m, e) ==
    IF m = 0 THEN FZero
    ELSE IF m < 2^23 THEN Normalize(s, 2 * m, e - 1)
    ELSE [s |-> s, m |-> m, e |-> e]

\* static_cast<float>(n) for an integer of magnitude below 2^24: exact.
FromInt(n) == IF n >= 0 THEN Normalize(1, n, 0) ELSE Normalize(0 - 1, 0 - n, 0)

\* Round to nearest, ties to even: q is the significand cut off, cmp the
\* sign of (what was cut off - half a unit in the last place).
RoundEven(s, q, e, cmp) ==
    LET up == cmp > 0 \/ (cmp = 0 /\ q % 2 = 1)
        r  == IF up THEN q + 1 ELSE q
    IN  IF r = 2^24 THEN [s |-> s, m |-> 2^23, e |-> e + 1]
        ELSE [s |-> s, m |-> r, e |-> e]

Sign(x) == IF x > 0 THEN 1 ELSE IF x < 0 THEN 0 - 1 ELSE 0

\* n more binary digits of rem / d, after the digits q.
RECURSIVE DivBits(_, _, _, _)
DivBits(rem, d, n, q) ==
    IF n = 0 THEN <<q, rem>>
    ELSE IF 2 * rem >= d THEN DivBits(2 * rem - d, d, n - 1, 2 * q + 1)
    ELSE DivBits(2 * rem, d, n - 1, 2 * q)

\* a / b in float, b not zero.
FDiv(a, b) ==
    IF a.m = 0 THEN FZero
    ELSE LET first == a.m >= b.m
             qr == IF first THEN DivBits(a.m - b.m, b.m, 23, 1)
                   ELSE DivBits(a.m, b.m, 24, 0)
             e  == IF first THEN a.e - b.e - 23 ELSE a.e - b.e - 24
         IN  RoundEven(a.s * b.s, qr[1], e, Sign(2 * qr[2] - b.m))

\* a * b in float: the 48-bit product of the significands is formed from
\* 12-bit halves as hi * 2^24 + lo, then rounded to 24 bits.
FMul(a, b) ==
    IF a.m = 0 \/ b.m = 0 THEN FZero
    ELSE LET ah == a.m \div 2^12
             al == a.m % 2^12
             bh == b.m \div 2^12
             bl == b.m % 2^12
             mid == ah * bl + al * bh
             t  == al * bl + (mid % 2^12) * 2^12
             lo == t % 2^24
             hi == ah * bh + mid \div 2^12 + t \div 2^24
         IN  IF hi >= 2^23
               THEN RoundEven(a.s * b.s, hi, a.e + b.e + 24, Sign(lo - 2^23))
               ELSE RoundEven(a.s * b.s, 2 * hi + lo \div 2^23, a.e + b.e + 23,
                              Sign((lo % 2^23) - 2^22))

\* |a| < |b|.
MagLess(a, b) ==
    IF b.m = 0 THEN FALSE
    ELSE IF a.m = 0 THEN TRUE
    ELSE a.e < b.e \/ (a.e = b.e /\ a.m < b.m)

\* a < b in float; false when either is not a number.
FLess(a, b) ==
    IF a = NaN \/ b = NaN THEN FALSE
    ELSE IF a.s = 1 /\ b.s = 1 THEN MagLess(a, b)
    ELSE IF a.s = 0 - 1 /\ b.s = 0 - 1 THEN MagLess(b, a)
    ELSE IF a.s = 0 - 1 THEN a.m # 0 \/ b.m # 0
    ELSE FALSE

\* static_cast<uint32_t>(a) for a float a >= 0 below 2^24: the fraction is
\* cut off.
Truncate(a) ==
    IF a.m = 0 THEN 0
    ELSE IF a.e >= 0 THEN a.m * 2^a.e
    ELSE IF 0 - a.e >= 24 THEN 0
    ELSE a.m \div 2^(0 - a.e)

\* The integer a float of integral value stands for.
IntOf(a) == a.s * Truncate(a)

\* a - b in float for floats of integral value: the difference of two
\* integers below 2^24 is one, so no rounding takes place.
FSub(a, b) == FromInt(IntOf(a) - IntOf(b))

\* Mutant of FMin: the greater of the two.
FMinSwapped(a, b) == IF FLess(b, a) THEN a ELSE b

\* std::min(a, b): "(b < a) ? b : a".
FMin(a, b) == IF FLess(b, a) THEN b ELSE a

\* std::clamp(v, lo, hi): "(v < lo) ? lo : (hi < v) ? hi : v".
FClamp(v, lo, hi) == IF FLess(v, lo) THEN lo ELSE IF FLess(hi, v) THEN hi ELSE v

----------------------------------------------------------------------------
(* TensorRTBackend: load_engine, infer, the destructor *)

\* d_images_, d_orig_sizes_, d_labels_, d_boxes_, d_scores_, in the order
\* allocate_buffers allocates them.
NumBuffers == 5

Buffers == 1..NumBuffers

\* Calls of load_engine and of infer that are followed.
MaxLoads == 2

MaxInfers == 2

\* What the adapter holds.
Held == [runtime |-> runtime_, engine |-> engine_, context |-> context_, bufs |-> d_bufs]

\* The adapter holds everything infer uses.
Loaded == runtime_ /\ engine_ /\ context_ /\ \A b \in Buffers : d_bufs[b]

\* The adapter holds nothing.
Unloaded == ~runtime_ /\ ~engine_ /\ ~context_ /\ \A b \in Buffers : ~d_bufs[b]

\* load_engine or infer returns.
BackendReturn(result) ==
    /\ a_pc' = "idle"
    /\ a_ret' = IF result THEN "true" ELSE "false"
    /\ a_i' = 1

\* load_engine is called on an adapter that is not loaded.
Load_Begin ==
    /\ a_pc = "idle"
    /\ ~Loaded
    /\ a_loads < MaxLoads
    /\ a_loads' = a_loads + 1
    /\ a_pc' = "read"
    /\ a_call' = "load"
    /\ a_ret' = "none"
    /\ UNCHANGED <<resvars, a_i, a_infers, a_entry, a_failed>>
    /\ UNCHANGED <<fvars, dvars, cvars, pvars, tvars, startvars, readvars, lifevars>>

\* load_engine: "if (!file.good()) return false"; otherwise the file is read.
Load_Read(ok) ==
    /\ a_pc = "read"
    /\ IF ok THEN a_pc' = "runtime" /\ UNCHANGED <<a_ret, a_i>>
             ELSE BackendReturn(FALSE)
    /\ UNCHANGED <<resvars, a_call, a_loads, a_infers, a_entry, a_failed>>
    /\ UNCHANGED <<fvars, dvars, cvars, pvars, tvars, startvars, readvars, lifevars>>

\* load_engine: "runtime_ = createInferRuntime(logger_); if (!runtime_)
\* return false".
Load_Runtime(ok) ==
    /\ a_pc = "runtime"
    /\ runtime_' = ok
    /\ IF ok THEN a_pc' = "engine" /\ UNCHANGED <<a_ret, a_i>>
             ELSE BackendReturn(FALSE)
    /\ UNCHANGED <<engine_, context_, d_bufs, a_call, a_loads, a_infers, a_entry, a_failed>>
    /\ UNCHANGED <<fvars, dvars, cvars, pvars, tvars, startvars, readvars, lifevars>>

\* load_engine: "engine_ = runtime_->deserializeCudaEngine(...); if
\* (!engine_) return false".
Load_Engine(ok) ==
    /\ a_pc = "engine"
    /\ engine_' = ok
    /\ IF ok THEN a_pc' = "context" /\ UNCHANGED <<a_ret, a_i>>
             ELSE BackendReturn(FALSE)
    /\ UNCHANGED <<runtime_, context_, d_bufs, a_call, a_loads, a_infers, a_entry, a_failed>>
    /\ UNCHANGED <<fvars, dvars, cvars, pvars, tvars, startvars, readvars, lifevars>>

\* load_engine: "context_ = engine_->createExecutionContext(); if
\* (!context_) return false"; otherwise allocate_buffers is entered.
Load_Context(ok) ==
    /\ a_pc = "context"
    /\ context_' = ok
    /\ IF ok THEN a_pc' = "alloc" /\ a_i' = 1 /\ UNCHANGED a_ret
             ELSE BackendReturn(FALSE)
    /\ UNCHANGED <<runtime_, engine_, d_bufs, a_call, a_loads, a_infers, a_entry, a_failed>>
    /\ UNCHANGED <<fvars, dvars, cvars, pvars, tvars, startvars, readvars, lifevars>>

\* allocate_buffers: "if (cudaMalloc(&d_..., size) != cudaSuccess) return
\* false", buffer by buffer; load_engine returns false when it does, true
\* after the last buffer.
Load_Alloc(ok) ==
    /\ a_pc = "alloc"
    /\ d_bufs' = IF ok THEN [d_bufs EXCEPT ![a_i] = TRUE] ELSE d_bufs
    /\ IF ~ok THEN BackendReturn(FALSE)
       ELSE IF a_i = NumBuffers THEN BackendReturn(TRUE)
       ELSE a_i' = a_i + 1 /\ UNCHANGED <<a_pc, a_ret>>
    /\ UNCHANGED <<runtime_, engine_, context_, a_call, a_loads, a_infers, a_entry, a_failed>>
    /\ UNCHANGED <<fvars, dvars, cvars, pvars, tvars, startvars, readvars, lifevars>>

\* The steps of infer that may fail: two copies to the device, executeV2,
\* three copies from the device.
InferSteps == <<"h2d_images", "h2d_orig_sizes", "execute",
                "d2h_labels", "d2h_boxes", "d2h_scores">>

\* infer is called on a loaded adapter.
Infer_Begin ==
    /\ a_pc = "idle"
    /\ Loaded
    /\ a_infers < MaxInfers
    /\ a_infers' = a_infers + 1
    /\ a_pc' = "infer"
    /\ a_i' = 1
    /\ a_call' = "infer"
    /\ a_ret' = "none"
    /\ a_entry' = Held
    /\ UNCHANGED <<resvars, a_loads, a_failed>>
    /\ UNCHANGED <<fvars, dvars, cvars, pvars, tvars, startvars, readvars, lifevars>>

\* Mutant of InferFailureLeaves: the buffers are freed on the way out.
InferFailureFrees(d) == [b \in Buffers |-> FALSE]

\* infer: "LOG_ERROR(...); return false": the device buffers as a failing
\* step leaves them.
InferFailureLeaves(d) == d

\* infer: one of its steps, "if (... != cudaSuccess) return false" or "if
\* (!context_->executeV2(bindings)) return false"; true after the last.
Infer_Step(ok) ==
    /\ a_pc = "infer"
    /\ d_bufs' = IF ok THEN d_bufs ELSE InferFailureLeaves(d_bufs)
    /\ IF ~ok THEN BackendReturn(FALSE)
       ELSE IF a_i = Len(InferSteps) THEN BackendReturn(TRUE)
       ELSE a_i' = a_i + 1 /\ UNCHANGED <<a_pc, a_ret>>
    /\ a_failed' = (a_failed \/ ~ok)
    /\ UNCHANGED <<runtime_, engine_, context_, a_call, a_loads, a_infers, a_entry>>
    /\ UNCHANGED <<fvars, dvars, cvars, pvars, tvars, startvars, readvars, lifevars>>

\* ~TensorRTBackend: free_buffers, then context, engine and runtime are
\* deleted.
Backend_Destroy ==
    /\ a_pc = "idle"
    /\ a_pc' = "destroyed"
    /\ d_bufs' = [b \in Buffers |-> FALSE]
    /\ context_' = FALSE
    /\ engine_' = FALSE
    /\ runtime_' = FALSE
    /\ UNCHANGED <<a_i, a_call, a_ret, a_loads, a_infers, a_entry, a_failed>>
    /\ UNCHANGED <<fvars, dvars, cvars, pvars, tvars, startvars, readvars, lifevars>>

BackendInit ==
    /\ runtime_ = FALSE
    /\ engine_ = FALSE
    /\ context_ = FALSE
    /\ d_bufs = [b \in Buffers |-> FALSE]
    /\ a_pc = "idle"
    /\ a_i = 1
    /\ a_call = "none"
    /\ a_ret = "none"
    /\ a_loads = 0
    /\ a_infers = 0
    /\ a_entry = [runtime |-> FALSE, engine |-> FALSE, context |-> FALSE,
                  bufs |-> [b \in Buffers |-> FALSE]]
    /\ a_failed = FALSE

BackendNext ==
    \/ Load_Begin
    \/ \E ok \in BOOLEAN : Load_Read(ok)
    \/ \E ok \in BOOLEAN : Load_Runtime(ok)
    \/ \E ok \in BOOLEAN : Load_Engine(ok)
    \/ \E ok \in BOOLEAN : Load_Context(ok)
    \/ \E ok \in BOOLEAN : Load_Alloc(ok)
    \/ Infer_Begin
    \/ \E ok \in BOOLEAN : Infer_Step(ok)
    \/ Backend_Destroy

----------------------------------------------------------------------------
(* PreProcessor::preprocess and PostProcessor::parse_detections *)

\* main: "PreProcessor preprocessor(640)".
INPUT_SIZE == 640

\* main: "PostProcessor postprocessor(0.5f)".
Threshold == FDiv(FromInt(1), FromInt(2))

\* The engine's number of detections per frame, num_detections_.
MaxRaw == 2

\* Frame sizes <<width, height>>.
Sizes == {<<1920, 1080>>, <<1080, 1920>>, <<640, 640>>, <<640, 480>>,
          <<1064, 600>>, <<133, 100>>}

\* What the engine may put out for one detection: a score, a label, a
\* box <<x1, y1, x2, y2>> in whole letterbox pixels.
Scores == {FDiv(FromInt(1), FromInt(4)), Threshold, FDiv(FromInt(3), FromInt(4)), NaN}

\* Labels with boxes: the whole of a 16:9 frame, a box with its corners
\* the wrong way round, a box that reaches outside the letterbox.
LabelledBoxes == {<<0, <<0, 140, 640, 500>> >>,
                  <<7, <<0, 140, 640, 500>> >>,
                  <<7, <<500, 400, 100, 200>> >>,
                  <<0, <<0 - 20, 0 - 20, 700, 700>> >>}

RawDetections ==
    {[score |-> sc, label |-> lb[1], box |-> lb[2]] : sc \in Scores, lb \in LabelledBoxes}

\* preprocess: the letterbox parameters.  "float scale = std::min(
\* static_cast<float>(input_size_) / width, ... / height)", "new_width =
\* static_cast<uint32_t>(width * scale)", "offset_x = (input_size_ -
\* new_width) / 2".
Letterbox(S, width, height) ==
    LET scale == FMin(FDiv(FromInt(S), FromInt(width)),
                      FDiv(FromInt(S), FromInt(height)))
        new_width == Truncate(FMul(FromInt(width), scale))
        new_height == Truncate(FMul(FromInt(height), scale))
    IN  [scale |-> scale,
         new_width |-> new_width,
         new_height |-> new_height,
         offset_x |-> (S - new_width) \div 2,
         offset_y |-> (S - new_height) \div 2]

\* main: "TransformParams transform{width, height, preprocess_result.scale,
\* preprocess_result.offset_x, preprocess_result.offset_y}"; the offsets
\* went through static_cast<float>.
Transform ==
    [orig_width |-> img[1], orig_height |-> img[2], scale |-> pre.scale,
     offset_x |-> FromInt(pre.offset_x), offset_y |-> FromInt(pre.offset_y)]

\* Mutant of Dropped: a score equal to the threshold is dropped too.
DroppedOrEqual(confidence) == ~FLess(Threshold, confidence)

\* parse_detections: "if (confidence < confidence_threshold_) continue".
Dropped(confidence) == FLess(confidence, Threshold)

\* parse_detections: "(box - transform.offset) / transform.scale".
Inverse(coord, offset, scale) == FDiv(FSub(FromInt(coord), offset), scale)

\* static_cast<uint32_t> of a 64-bit label: its low 32 bits, taken as two
\* halves of 16.
StaticCastU32(label) == (label % 2^16) + 2^16 * ((label \div 2^16) % 2^16)

\* parse_detections: the BoundingBox pushed for the raw detection d.
Emitted(d, t) ==
    [x1 |-> FClamp(Inverse(d.box[1], t.offset_x, t.scale), FZero, FromInt(t.orig_width)),
     y1 |-> FClamp(Inverse(d.box[2], t.offset_y, t.scale), FZero, FromInt(t.orig_height)),
     x2 |-> FClamp(Inverse(d.box[3], t.offset_x, t.scale), FZero, FromInt(t.orig_width)),
     y2 |-> FClamp(Inverse(d.box[4], t.offset_y, t.scale), FZero, FromInt(t.orig_height)),
     confidence |-> d.score,
     class_id |-> StaticCastU32(d.label)]

\* main: preprocessor.preprocess(pixels, width, height, is_bgr), then the
\* engine's output is handed to parse_detections.
Preprocess ==
    /\ t_pc = "start"
    /\ pre' = Letterbox(INPUT_SIZE, img[1], img[2])
    /\ pd_i' = 1
    /\ detections' = <<>>
    /\ t_pc' = "parse"
    /\ UNCHANGED <<img, raw>>
    /\ UNCHANGED <<fvars, dvars, cvars, pvars, avars, startvars, readvars, lifevars>>

\* parse_detections: one turn of "for (i = 0; i < output.num_detections; ++i)".
ParseStep ==
    /\ t_pc = "parse"
    /\ pd_i <= Len(raw)
    /\ detections' = IF Dropped(raw[pd_i].score) THEN detections
                     ELSE Append(detections, Emitted(raw[pd_i], Transform))
    /\ pd_i' = pd_i + 1
    /\ UNCHANGED <<img, raw, pre, t_pc>>
    /\ UNCHANGED <<fvars, dvars, cvars, pvars, avars, startvars, readvars, lifevars>>

\* parse_detections: "return detections".
ParseReturn ==
    /\ t_pc = "parse"
    /\ pd_i > Len(raw)
    /\ t_pc' = "done"
    /\ UNCHANGED <<img, raw, pre, pd_i, detections>>
    /\ UNCHANGED <<fvars, dvars, cvars, pvars, avars, startvars, readvars, lifevars>>

\* No frame is in the stages.
StageInit ==
    /\ img = <<INPUT_SIZE, INPUT_SIZE>>
    /\ raw = <<>>
    /\ pre = Letterbox(INPUT_SIZE, INPUT_SIZE, INPUT_SIZE)
    /\ pd_i = 1
    /\ detections = <<>>
    /\ t_pc = "done"

\* A frame of any of the sizes, for which the engine will put out any
\* MaxRaw detections.
StageInputs ==
    /\ img \in Sizes
    /\ raw \in [1..MaxRaw -> RawDetections]
    /\ pre = Letterbox(INPUT_SIZE, INPUT_SIZE, INPUT_SIZE)
    /\ pd_i = 1
    /\ detections = <<>>
    /\ t_pc = "start"

StageNext == Preprocess \/ ParseStep \/ ParseReturn

----------------------------------------------------------------------------
(* Specifications *)

----------------------------------------------------------------------------
(* main: from its first line to the event loop *)

\* Failed attempts a retry loop of main is followed for.
MaxRetry == 2

\* "return 1" from main.
ExitOne ==
    /\ s_pc' = "exited"
    /\ exit_code' = 1

\* Mutant of RetryOrGoOn: a failed attempt ends the process.
RetryOrGiveUp(ok, again, next) ==
    IF ok
      THEN /\ s_pc' = next
           /\ exit_code' = exit_code
      ELSE ExitOne

\* "while (!opt) { sleep_for(500ms); opt = build(); }": a failed attempt
\* leaves main where it is, a successful one lets it go on.
RetryOrGoOn(ok, again, next) ==
    /\ s_pc' = IF ok THEN next ELSE again
    /\ exit_code' = exit_code

\* main: "backend.load_engine(model_path)", called once.
S_LoadEngine ==
    /\ s_pc = "engine"
    /\ \/ (a_call = "none" /\ Load_Begin)
       \/ \E ok \in BOOLEAN : Load_Read(ok)
       \/ \E ok \in BOOLEAN : Load_Runtime(ok)
       \/ \E ok \in BOOLEAN : Load_Engine(ok)
       \/ \E ok \in BOOLEAN : Load_Context(ok)
       \/ \E ok \in BOOLEAN : Load_Alloc(ok)

\* main: load_engine returned true.
S_EngineLoaded ==
    /\ s_pc = "engine"
    /\ a_pc = "idle" /\ a_call = "load" /\ a_ret = "true"
    /\ s_pc' = "reader"
    /\ UNCHANGED <<exit_code, frame_file, fq_exists, s_tries, s_retried>>
    /\ UNCHANGED <<fvars, dvars, cvars, pvars, tvars, avars, readvars, lifevars>>

\* main: "if (!backend.load_engine(model_path)) return 1".
S_EngineFailed ==
    /\ s_pc = "engine"
    /\ a_pc = "idle" /\ a_call = "load" /\ a_ret = "false"
    /\ ExitOne
    /\ UNCHANGED <<frame_file, fq_exists, s_tries, s_retried>>
    /\ UNCHANGED <<fvars, dvars, cvars, pvars, tvars, avars, readvars, lifevars>>

\* main: FrameReader::build(), first in the "if", then after each sleep.
\* Without the file open() fails; with it any call of with_path may fail.
S_BuildReader(fail) ==
    /\ s_pc = "reader"
    /\ r_pc = "idle"
    /\ ~frame_file => fail = "open"
    /\ fail # "none" => s_tries < MaxRetry
    /\ last_sequence' = IF fail = "none" THEN 0 ELSE last_sequence
    /\ RetryOrGoOn(fail = "none", "reader", "writer")
    /\ s_tries' = IF fail = "none" THEN 0 ELSE s_tries + 1
    /\ s_retried' = (s_retried \/ fail # "none")
    /\ UNCHANGED <<frame_file, fq_exists>>
    /\ UNCHANGED <<frame_seq, frame_payload, fw_pc, fw_rec, fw_i,
                   r_pc, seq1, seq2, r_j, r_obs, r_result, r_seen,
                   r_overlap, r_latest, r_prev_torn>>
    /\ UNCHANGED <<dvars, cvars, pvars, tvars, avars, readvars, lifevars>>

\* main: DetectionWriter::build(), called once; "return 1" without a writer.
S_BuildWriter(fail) ==
    /\ s_pc = "writer"
    /\ WithPathCall(fail)
    /\ IF w_open'
         THEN /\ s_pc' = "frame_sem"
              /\ exit_code' = exit_code
         ELSE ExitOne
    /\ UNCHANGED <<frame_file, fq_exists, s_tries, s_retried>>
    /\ UNCHANGED <<fvars, cvars, pvars, tvars, avars, readvars, lifevars>>

\* main: BridgeSemaphore::open(FrameCaptureToInference), first in the "if",
\* then after each sleep.  mq_open without O_CREAT fails while the name
\* does not exist, and may fail when it does.
S_OpenFrameSem(fail) ==
    /\ s_pc = "frame_sem"
    /\ ~fq_exists => fail
    /\ fail => s_tries < MaxRetry
    /\ RetryOrGoOn(~fail, "frame_sem", "ctl_open")
    /\ s_tries' = IF fail THEN s_tries + 1 ELSE 0
    /\ s_retried' = (s_retried \/ fail)
    /\ UNCHANGED <<frame_file, fq_exists>>
    /\ UNCHANGED <<fvars, dvars, cvars, pvars, tvars, avars, readvars, lifevars>>

\* main: BridgeSemaphore::open(DetectionInferenceToController).
S_OpenController(fail) ==
    /\ s_pc = "ctl_open"
    /\ Sem_Open(1, fail)

\* main: the controller queue is open.
S_ControllerOpened ==
    /\ s_pc = "ctl_open"
    /\ h_pc[1] = "done" /\ mqd[1] # 0
    /\ s_pc' = "loop"
    /\ UNCHANGED <<exit_code, frame_file, fq_exists, s_tries, s_retried>>
    /\ UNCHANGED <<fvars, dvars, cvars, pvars, tvars, avars, readvars, lifevars>>

\* main: "if (!controller_sem_opt)": open yielded nothing, create is called.
S_ControllerAbsent ==
    /\ s_pc = "ctl_open"
    /\ h_pc[1] = "done" /\ mqd[1] = 0
    /\ s_pc' = "ctl_create"
    /\ h_pc' = [h_pc EXCEPT ![1] = "start"]
    /\ UNCHANGED <<mq_bound, mq_count, h_call, mqd, h_conc>>
    /\ UNCHANGED <<exit_code, frame_file, fq_exists, s_tries, s_retried>>
    /\ UNCHANGED <<fvars, dvars, pvars, tvars, avars, readvars, lifevars>>

\* main: BridgeSemaphore::create(DetectionInferenceToController).
S_CreateController ==
    /\ s_pc = "ctl_create"
    /\ \/ Sem_CreateUnlink(1)
       \/ \E fail \in BOOLEAN : Sem_CreateOpen(1, fail)

\* main: create yielded the queue.
S_ControllerCreated ==
    /\ s_pc = "ctl_create"
    /\ h_pc[1] = "done" /\ h_call[1] = "create" /\ mqd[1] # 0
    /\ s_pc' = "loop"
    /\ UNCHANGED <<exit_code, frame_file, fq_exists, s_tries, s_retried>>
    /\ UNCHANGED <<fvars, dvars, cvars, pvars, tvars, avars, readvars, lifevars>>

\* main: "if (!controller_sem_opt) return 1" after create.
S_ControllerFailed ==
    /\ s_pc = "ctl_create"
    /\ h_pc[1] = "done" /\ h_call[1] = "create" /\ mqd[1] = 0
    /\ ExitOne
    /\ UNCHANGED <<frame_file, fq_exists, s_tries, s_retried>>
    /\ UNCHANGED <<fvars, dvars, cvars, pvars, tvars, avars, readvars, lifevars>>

\* main has returned: the destructors of the objects it had built.
S_Unwind ==
    /\ s_pc = "exited"
    /\ \/ Backend_Destroy
       \/ Destroy

\* Capture starts and creates the frame buffer.
Peer_CreateFrameBuffer ==
    /\ ~frame_file
    /\ frame_file' = TRUE
    /\ UNCHANGED <<s_pc, exit_code, fq_exists, s_tries, s_retried>>
    /\ UNCHANGED <<fvars, dvars, cvars, pvars, tvars, avars, readvars, lifevars>>

\* Capture creates the frame queue.
Peer_CreateFrameQueue ==
    /\ ~fq_exists
    /\ fq_exists' = TRUE
    /\ UNCHANGED <<s_pc, exit_code, frame_file, s_tries, s_retried>>
    /\ UNCHANGED <<fvars, dvars, cvars, pvars, tvars, avars, readvars, lifevars>>

\* The controller starts first and creates its queue.
Peer_CreateController ==
    /\ s_pc # "loop"
    /\ \/ Sem_CreateUnlink(2)
       \/ Sem_CreateOpen(2, FALSE)

\* Frames capture publishes while main's start is followed.
StartFrames == 1

\* The event loop, once main is there, with capture and the consumer of
\* the controller queue running and with calls that fail.
S_Loop ==
    /\ s_pc = "loop"
    /\ \/ SignalStep
       \/ (frame_seq < StartFrames /\ Cap_Begin(FrameCells, TRUE))
       \/ FW_Copy
       \/ FW_Bump
       \/ Cap_Post
       \/ Ctl_Receive
       \/ \E e \in {"EINTR", "EOTHER"} : P_WaitFail(e)
       \/ P_TryWait(TRUE)
       \/ P_Infer(FALSE, 0)
       \/ P_PostEintr

StartInit ==
    /\ s_pc = "engine"
    /\ exit_code = -1
    /\ frame_file = FALSE
    /\ fq_exists = FALSE
    /\ s_tries = 0
    /\ s_retried = FALSE

StartNext ==
    \/ S_LoadEngine
    \/ S_EngineLoaded
    \/ S_EngineFailed
    \/ \E fail \in ReaderFailures : S_BuildReader(fail)
    \/ \E fail \in Failures : S_BuildWriter(fail)
    \/ \E fail \in BOOLEAN : S_OpenFrameSem(fail)
    \/ \E fail \in BOOLEAN : S_OpenController(fail)
    \/ S_ControllerOpened
    \/ S_ControllerAbsent
    \/ S_CreateController
    \/ S_ControllerCreated
    \/ S_ControllerFailed
    \/ S_Unwind
    \/ Peer_CreateFrameBuffer
    \/ Peer_CreateFrameQueue
    \/ Peer_CreateController
    \/ S_Loop

----------------------------------------------------------------------------
(* main: a frame OpenCV refuses *)

\* Sizes a valid frame record may carry besides the usual ones: the schema
\* constrains neither width nor height.
DegenerateSizes == {<<0, 480>>, <<640, 0>>, <<1, 641>>}

\* preprocess: cv::cvtColor and cv::resize raise cv::Exception on an image
\* without rows or columns, cv::resize also on a target size without rows
\* or columns ("cv::Size(new_width, new_height)").
CvThrows(width, height) ==
    IF width = 0 \/ height = 0
      THEN TRUE
      ELSE LET box == Letterbox(INPUT_SIZE, width, height)
           IN  box.new_width = 0 \/ box.new_height = 0

\* main: "preprocessor.preprocess(pixels->data(), width, height, is_bgr)"
\* on a frame of that size.  Neither preprocess nor main has a handler:
\* the exception leaves main, std::terminate ends the process, and the
\* kernel takes the mappings and descriptors back.
P_PreprocessThrows(size) ==
    /\ p_pc = "infer"
    /\ CvThrows(size[1], size[2])
    /\ p_pc' = "terminated"
    /\ UNCHANGED <<qvars, p_ret, p_errno, count, p_ndet, kvars, gvars>>
    /\ UNCHANGED <<fvars, dvars, cvars, uvars, hvars>>

\* The event loop with a capture that publishes frames of any size.
FaultNext ==
    \/ SkipNext
    \/ \E size \in Sizes \cup DegenerateSizes : P_PreprocessThrows(size)

----------------------------------------------------------------------------
(* main: from the frame's fields to preprocess *)

\* "enum ColorFormat": the formats of a frame record.
Formats == {"BGR", "RGB", "GRAY"}

\* Bytes of one pixel as capture stores it.
Channels(format) == IF format = "GRAY" THEN 1 ELSE 3

\* Sizes <<width, height>> of the records followed here.
FieldSizes == {<<1920, 1080>>, <<640, 480>>, <<4, 2>>, <<0, 480>>, <<640, 0>>}

\* The records a FlatBuffers verifier accepts: any width, height and
\* format, and either no pixel vector, the vector capture stores for that
\* format, or a shorter one.
FrameFields ==
    {[width |-> sz[1], height |-> sz[2], format |-> fm, pixels |-> px] :
        sz \in FieldSizes, fm \in Formats, px \in {-1, 0, 1}}

\* Size of the record's pixel vector: absent, cut short by one pixel, or
\* width * height pixels of the format.
PixelBytes(f) ==
    LET full == f.width * f.height * Channels(f.format)
    IN  IF f.pixels = -1 THEN -1
        ELSE IF f.pixels = 0 /\ full > 0 THEN full - Channels(f.format)
        ELSE full

NoFields == [width |-> 0, height |-> 0, format |-> "BGR", pixels |-> -1]

\* main: "if (!pixels) { ...; continue; }": what goes on to preprocess.
Handed(f) == f.pixels # -1

\* main: get_frame returned a record; "width = frame->width()", ...,
\* "pixels = frame->pixels()".
V_Fields(f) ==
    /\ v_pc = "frame"
    /\ v_frame' = f
    /\ v_pc' = "fields"
    /\ v_read' = 0
    /\ UNCHANGED <<fvars, dvars, cvars, pvars, tvars, avars, startvars, g_read_seq, lifevars>>

\* main: the test of pixels, the only test between the fields and
\* preprocess.
V_CheckPixels ==
    /\ v_pc = "fields"
    /\ v_pc' = IF Handed(v_frame) THEN "preprocess" ELSE "frame"
    /\ UNCHANGED <<v_frame, v_read>>
    /\ UNCHANGED <<fvars, dvars, cvars, pvars, tvars, avars, startvars, g_read_seq, lifevars>>

\* preprocess: "cv::Mat src(height, width, CV_8UC3, pixels)" and the
\* conversion or resize that reads it: height * width * 3 bytes from
\* pixels->data(), whatever the format.  Reading past the vector is
\* undefined: the bytes behind it are read, or the process faults.  An
\* image OpenCV refuses ends the process as well.
V_Preprocess(faults) ==
    /\ v_pc = "preprocess"
    /\ LET need == v_frame.width * v_frame.height * 3
           past == need > PixelBytes(v_frame)
       IN  /\ v_read' = need
           /\ faults => past
           /\ v_pc' = IF faults \/ CvThrows(v_frame.width, v_frame.height)
                        THEN "terminated" ELSE "infer"
    /\ UNCHANGED v_frame
    /\ UNCHANGED <<fvars, dvars, cvars, pvars, tvars, avars, startvars, g_read_seq, lifevars>>

\* main: the rest of the iteration; the next frame.
V_Next ==
    /\ v_pc = "infer"
    /\ v_pc' = "frame"
    /\ v_read' = 0
    /\ UNCHANGED v_frame
    /\ UNCHANGED <<fvars, dvars, cvars, pvars, tvars, avars, startvars, g_read_seq, lifevars>>

ViewInit ==
    /\ g_read_seq = 0
    /\ v_frame = NoFields
    /\ v_pc = "frame"
    /\ v_read = 0

ViewNext ==
    \/ \E f \in FrameFields : V_Fields(f)
    \/ V_CheckPixels
    \/ \E faults \in BOOLEAN : V_Preprocess(faults)
    \/ V_Next

----------------------------------------------------------------------------
(* FrameReader, DetectionWriter, BridgeSemaphore: who owns what *)

\* Objects followed at a time.
MaxObjs == 2

\* Resources the kernel hands out in a run.
MaxRes == 4

Objs == 1..MaxObjs

Classes == {"FrameReader", "DetectionWriter", "BridgeSemaphore"}

\* The members of an object that holds nothing: "mmap_ptr_ = nullptr",
\* "fd_ = -1", "mqd_ = (mqd_t)-1".  A resource is written as its number,
\* 0 for none.
NoHold == [map |-> 0, fd |-> 0, mqd |-> 0]

NoObject == [live |-> FALSE, class |-> "FrameReader", hold |-> NoHold]

\* The destructor's calls, in its order: munmap if the pointer is set,
\* close if fd_ >= 0; mq_close if mqd_ is set.
Releases(h) ==
    (IF h.map # 0 THEN <<h.map>> ELSE <<>>) \o
    (IF h.fd # 0 THEN <<h.fd>> ELSE <<>>) \o
    (IF h.mqd # 0 THEN <<h.mqd>> ELSE <<>>)

\* Mutant of MovedFrom: the source of a move keeps its members.
MovedFromKeeps(h) == h

\* Move constructor and move assignment: "other.mmap_ptr_ = nullptr;
\* other.fd_ = -1;", "other.mqd_ = (mqd_t)-1".
MovedFrom(h) == NoHold

\* FrameReader::with_path / DetectionWriter::with_path yielding object o.
\* A failing open (or create) acquires nothing; after a failing ftruncate,
\* fstat or mmap the descriptor is closed; otherwise the object is
\* constructed with the descriptor and the mapping.
Obj_WithPath(o, class, fail) ==
    /\ ~objs[o].live
    /\ class \in {"FrameReader", "DetectionWriter"}
    /\ fail \in (IF class = "FrameReader" THEN ReaderFailures ELSE Failures)
    /\ acquired + 2 <= MaxRes
    /\ IF fail \in {"open", "create"}
         THEN UNCHANGED <<objs, acquired, released>>
         ELSE IF fail # "none"
           THEN /\ acquired' = acquired + 1
                /\ released' = Append(released, acquired + 1)
                /\ UNCHANGED objs
           ELSE /\ acquired' = acquired + 2
                /\ objs' = [objs EXCEPT ![o] =
                              [live |-> TRUE, class |-> class,
                               hold |-> [map |-> acquired + 2, fd |-> acquired + 1,
                                         mqd |-> 0]]]
                /\ UNCHANGED released
    /\ UNCHANGED <<fvars, dvars, cvars, pvars, tvars, avars, startvars, readvars>>

\* BridgeSemaphore::open / create yielding object o: a failing mq_open
\* acquires nothing.
Obj_Open(o, fail) ==
    /\ ~objs[o].live
    /\ acquired + 1 <= MaxRes
    /\ IF fail
         THEN UNCHANGED <<objs, acquired>>
         ELSE /\ acquired' = acquired + 1
              /\ objs' = [objs EXCEPT ![o] =
                            [live |-> TRUE, class |-> "BridgeSemaphore",
                             hold |-> [map |-> 0, fd |-> 0, mqd |-> acquired + 1]]]
    /\ UNCHANGED released
    /\ UNCHANGED <<fvars, dvars, cvars, pvars, tvars, avars, startvars, readvars>>

\* Move constructor: a new object takes the members of other.
Obj_MoveConstruct(o, other) ==
    /\ ~objs[o].live
    /\ objs[other].live
    /\ objs' = [objs EXCEPT
                  ![o] = [live |-> TRUE, class |-> objs[other].class,
                          hold |-> objs[other].hold],
                  ![other].hold = MovedFrom(objs[other].hold)]
    /\ UNCHANGED <<acquired, released>>
    /\ UNCHANGED <<fvars, dvars, cvars, pvars, tvars, avars, startvars, readvars>>

\* Move assignment: "if (this != &other)" the object releases what it
\* holds and takes the members of other.
Obj_MoveAssign(o, other) ==
    /\ objs[o].live
    /\ objs[other].live
    /\ objs[o].class = objs[other].class
    /\ IF o = other
         THEN UNCHANGED <<objs, released>>
         ELSE /\ released' = released \o Releases(objs[o].hold)
              /\ objs' = [objs EXCEPT
                            ![o].hold = objs[other].hold,
                            ![other].hold = MovedFrom(objs[other].hold)]
    /\ UNCHANGED acquired
    /\ UNCHANGED <<fvars, dvars, cvars, pvars, tvars, avars, startvars, readvars>>

\* Destructor.
Obj_Destroy(o) ==
    /\ objs[o].live
    /\ released' = released \o Releases(objs[o].hold)
    /\ objs' = [objs EXCEPT ![o] = NoObject]
    /\ UNCHANGED acquired
    /\ UNCHANGED <<fvars, dvars, cvars, pvars, tvars, avars, startvars, readvars>>

OwnInit ==
    /\ objs = [o \in Objs |-> NoObject]
    /\ acquired = 0
    /\ released = <<>>

OwnNext ==
    \/ \E o \in Objs, class \in Classes, fail \in Failures : Obj_WithPath(o, class, fail)
    \/ \E o \in Objs, fail \in BOOLEAN : Obj_Open(o, fail)
    \/ \E o, other \in Objs : Obj_MoveConstruct(o, other)
    \/ \E o, other \in Objs : Obj_MoveAssign(o, other)
    \/ \E o \in Objs : Obj_Destroy(o)

----------------------------------------------------------------------------
(* TensorRTBackend: who owns the GPU resources *)

\* GPU resources handed out in a run: one complete load after a failed one.
MaxGpu == 9

\* A TensorRTBackend after its constructor: every pointer is nullptr.
NoGpu == [runtime |-> 0, engine |-> 0, context |-> 0, bufs |-> [b \in Buffers |-> 0]]

\* The steps of load_engine that may fail: the engine file, the runtime,
\* the engine, the context, or the cudaMalloc of one of the buffers.
\* A failure is the step and, for cudaMalloc, the buffer.
LoadFailures ==
    ({"none", "file", "runtime", "engine", "context"} \X {0}) \cup ({"alloc"} \X Buffers)

\* How many resources load_engine acquires when it fails at the given step.
AcquiredUntil(fail) ==
    IF fail[1] = "file" \/ fail[1] = "runtime" THEN 0
    ELSE IF fail[1] = "engine" THEN 1
    ELSE IF fail[1] = "context" THEN 2
    ELSE IF fail[1] = "none" THEN 3 + NumBuffers
    ELSE 3 + fail[2] - 1

\* free_buffers, then "delete context_", "delete engine_", "delete
\* runtime_": the calls, each only for a pointer that is set.
GpuReleases(h) ==
    LET RECURSIVE Bufs(_)
        Bufs(b) == IF b > NumBuffers THEN <<>>
                   ELSE (IF h.bufs[b] # 0 THEN <<h.bufs[b]>> ELSE <<>>) \o Bufs(b + 1)
    IN  Bufs(1) \o
        (IF h.context # 0 THEN <<h.context>> ELSE <<>>) \o
        (IF h.engine # 0 THEN <<h.engine>> ELSE <<>>) \o
        (IF h.runtime # 0 THEN <<h.runtime>> ELSE <<>>)

\* "TensorRTBackend backend;".
Gpu_Construct(o) ==
    /\ ~objs[o].live
    /\ objs' = [objs EXCEPT ![o] =
                  [live |-> TRUE, class |-> "TensorRTBackend", hold |-> NoGpu]]
    /\ UNCHANGED <<acquired, released>>
    /\ UNCHANGED <<fvars, dvars, cvars, pvars, tvars, avars, startvars, readvars>>

\* load_engine on object o, failing at the given step or not at all.  Each
\* step assigns its member: "runtime_ = createInferRuntime", "engine_ =
\* deserializeCudaEngine", "context_ = createExecutionContext", cudaMalloc
\* into d_images_ ... d_scores_.  Nothing looks at what the member held, and
\* a failure returns false with the members as they are.
Gpu_LoadEngine(o, fail) ==
    /\ objs[o].live
    /\ objs[o].class = "TensorRTBackend"
    /\ acquired + AcquiredUntil(fail) <= MaxGpu
    /\ LET n == AcquiredUntil(fail)
           h == objs[o].hold
           Got(k, old) == IF k <= n THEN acquired + k ELSE old
       IN  /\ acquired' = acquired + n
           /\ objs' = [objs EXCEPT ![o].hold =
                         [runtime |-> Got(1, h.runtime),
                          engine |-> Got(2, h.engine),
                          context |-> Got(3, h.context),
                          bufs |-> [b \in Buffers |-> Got(3 + b, h.bufs[b])]]]
    /\ UNCHANGED released
    /\ UNCHANGED <<fvars, dvars, cvars, pvars, tvars, avars, startvars, readvars>>

\* Move constructor: the new object takes every pointer, other is reset to
\* nullptr.
Gpu_MoveConstruct(o, other) ==
    /\ ~objs[o].live
    /\ objs[other].live
    /\ objs[other].class = "TensorRTBackend"
    /\ objs' = [objs EXCEPT
                  ![o] = [live |-> TRUE, class |-> "TensorRTBackend",
                          hold |-> objs[other].hold],
                  ![other].hold = NoGpu]
    /\ UNCHANGED <<acquired, released>>
    /\ UNCHANGED <<fvars, dvars, cvars, pvars, tvars, avars, startvars, readvars>>

\* Move assignment: "if (this != &other)" free_buffers and the three
\* deletes, then the pointers of other, which is reset.
Gpu_MoveAssign(o, other) ==
    /\ objs[o].live
    /\ objs[other].live
    /\ objs[o].class = "TensorRTBackend"
    /\ objs[other].class = "TensorRTBackend"
    /\ IF o = other
         THEN UNCHANGED <<objs, released>>
         ELSE /\ released' = released \o GpuReleases(objs[o].hold)
              /\ objs' = [objs EXCEPT
                            ![o].hold = objs[other].hold,
                            ![other].hold = NoGpu]
    /\ UNCHANGED acquired
    /\ UNCHANGED <<fvars, dvars, cvars, pvars, tvars, avars, startvars, readvars>>

\* ~TensorRTBackend.
Gpu_Destroy(o) ==
    /\ objs[o].live
    /\ objs[o].class = "TensorRTBackend"
    /\ released' = released \o GpuReleases(objs[o].hold)
    /\ objs' = [objs EXCEPT ![o] = NoObject]
    /\ UNCHANGED acquired
    /\ UNCHANGED <<fvars, dvars, cvars, pvars, tvars, avars, startvars, readvars>>

GpuNext ==
    \/ \E o \in Objs : Gpu_Construct(o)
    \/ \E o \in Objs, fail \in LoadFailures : Gpu_LoadEngine(o, fail)
    \/ \E o, other \in Objs : Gpu_MoveConstruct(o, other)
    \/ \E o, other \in Objs : Gpu_MoveAssign(o, other)
    \/ \E o \in Objs : Gpu_Destroy(o)

DetInit ==
    /\ det_exists = FALSE
    /\ det_size = 0
    /\ det_seq = 0
    /\ det_payload = <<>>
    /\ w_open = FALSE
    /\ mmap_size = 0
    /\ w_pc = "idle"
    /\ w_rec = NoRecord
    /\ w_i = 1
    /\ old_seq = 0
    /\ w_ret = "none"
    /\ w_entry_seq = 0
    /\ w_entry_payload = <<>>
    /\ w_fresh = FALSE
    /\ w_wrote = FALSE
    /\ c_pc = "idle"
    /\ c_s1 = 0
    /\ c_j = 1
    /\ c_obs = <<>>
    /\ c_accept = FALSE
    /\ observed = 0

\* The writer's process and the file system around it.
DetNext ==
    \/ \E fail \in Failures : WithPath(fail)
    \/ Destroy
    \/ \E size \in PeerSizes : PeerCreate(size)
    \/ Unlink
    \/ \E frame_number \in 1..MaxFrame, n \in 0..MaxDet : Write_Begin(frame_number, n)
    \/ Write_Copy
    \/ Write_LoadSeq
    \/ Write_StoreSeq
    \/ Write_Return
    \/ Sequence

\* The writer publishing while a reader reads.
DetReadNext ==
    \/ \E fail \in Failures : WithPath(fail)
    \/ \E frame_number \in 1..MaxFrame, n \in 0..MaxDet : Write_Begin(frame_number, n)
    \/ Write_Copy
    \/ Write_LoadSeq
    \/ Write_StoreSeq
    \/ Write_Return
    \/ C_Load1
    \/ C_Read
    \/ C_Load2
    \/ C_Done

Init == FrameInit /\ DetInit /\ MqInit /\ PInit /\ StageInit /\ BackendInit /\ StartInit /\ ViewInit /\ OwnInit

\* The frame slot: capture publishing, FrameReader reading.
FrameSpec == Init /\ [][FrameNext]_vars

\* The detection slot: DetectionWriter opening and publishing, a reader.
DetSpec == Init /\ [][DetNext]_vars

\* The detection slot with a reader following the double-check protocol.
DetReadSpec == Init /\ [][DetReadNext]_vars

\* The queue name: processes opening and creating handles on it.
MqSpec == Init /\ [][MqNext]_vars

\* The event loop of main between capture and the controller.
PipeSpec == Init /\ [][PipeNext]_vars

\* The event loop, seen for its signalling.
SignalSpec == Init /\ [][SignalNext]_vars

\* The same under a scheduler that keeps running the process: a step of the
\* loop that stays possible is taken.  Nothing is assumed of capture, of
\* the consumer of the controller queue, or of signals.
SignalFairSpec == SignalSpec /\ WF_vars(SignalStep)

SkipSpec == Init /\ [][SkipNext]_vars

\* The adapter, loaded and used.
BackendSpec == Init /\ [][BackendNext]_vars

\* One frame of any size and any engine output through the stages.
StageStart ==
    FrameInit /\ DetInit /\ MqInit /\ PInit /\ StageInputs /\ BackendInit /\ StartInit /\ ViewInit /\ OwnInit

StageSpec == StageStart /\ [][StageNext]_vars

\* main from its first line on, with the peers it waits for.
StartSpec == Init /\ [][StartNext]_vars

\* The event loop fed with frames of any size.
FaultSpec == Init /\ [][FaultNext]_vars

\* The event loop with the sequence number of each read noted.
MarkSpec == Init /\ [][MarkNext]_vars

\* Frame records of any size and format on their way to preprocess.
ViewSpec == Init /\ [][ViewNext]_vars

\* Objects of the three classes built, moved and destroyed in any order.
OwnSpec == Init /\ [][OwnNext]_vars

\* TensorRTBackend objects built, loaded, moved and destroyed in any order.
GpuSpec == Init /\ [][GpuNext]_vars

----------------------------------------------------------------------------
(* Claims about the detection slot *)

\* C3 (double-check reader, under DetReadSpec): a reader that loads s1,
\* reads the payload, loads s2 and accepts iff s1 = s2 and s1 # 0 accepts
\* only the complete bytes of one record, never a mixture of two.
C3_AcceptedIsOneRecord ==
    (c_pc = "done" /\ c_accept) => IsOneRecord(c_obs)

\* C4 (sequence monotonicity, under DetSpec): of any two reads of the slot's
\* counter through sequence(), the later is greater than or equal to the
\* earlier.
C4_SequenceMonotonic ==
    [][Sequence => observed' >= observed]_vars

\* C5 (publication bumps by one, after the copy; under DetSpec): the counter
\* keeps its value until the whole record is in the mapping at offset 8, and
\* a write that returns true leaves it exactly one above its value at entry.
C5_BumpByOneAfterCopy ==
    /\ w_pc \in {"copy", "load", "store"} => det_seq = w_entry_seq
    /\ w_pc \in {"load", "store"} =>
          SubSeq(det_payload, 1, w_rec.len) = RecordBytes(w_rec)
    /\ (w_pc = "ret" /\ w_ret = "ok") =>
          /\ det_seq = w_entry_seq + 1
          /\ SubSeq(det_payload, 1, w_rec.len) = RecordBytes(w_rec)

\* C5 witness: a second successful write has just returned.
C5_Witness ==
    w_pc = "ret" /\ w_ret = "ok" /\ w_entry_seq = 1 /\ det_seq = 2 /\ w_rec.len >= 2

\* C6 (oversize record, under DetSpec): write returns false exactly when the
\* serialized record is larger than mapping size minus 8, and then neither
\* the payload nor the counter has changed; a record of exactly mapping size
\* minus 8 is published.
C6_FalseIffOversize ==
    w_pc = "ret" =>
        /\ w_ret \in {"ok", "fail"}
        /\ w_ret = "fail" <=> w_rec.len > mmap_size - HEADER_SIZE
        /\ w_ret = "fail" => (det_seq = w_entry_seq /\ det_payload = w_entry_payload)
        /\ w_rec.len = mmap_size - HEADER_SIZE =>
              (w_ret = "ok" /\ det_seq = w_entry_seq + 1)

\* C6 witness: an oversize write returns false on a slot that already holds
\* a published record.
C6_Witness ==
    /\ w_pc = "ret"
    /\ w_ret = "fail"
    /\ w_rec.len = mmap_size - HEADER_SIZE + 1
    /\ det_seq >= 1

\* C9 (fresh file starts at zero, under DetSpec): a writer returned by a
\* with_path that created the backing file has a file of the default size,
\* and its counter reads 0 until the first successful write.
C9_FreshFileIsZero ==
    (w_open /\ w_fresh /\ ~w_wrote) =>
        /\ det_size = DEFAULT_BUFFER_SIZE
        /\ mmap_size = DEFAULT_BUFFER_SIZE
        /\ det_seq = 0

\* C9 witness: the first write on a freshly created file is about to store
\* the counter.
C9_Witness ==
    w_open /\ w_fresh /\ ~w_wrote /\ w_pc = "store"

\* C10 (reopen leaves the slot alone, under DetSpec): with_path on a backing
\* file that already existed changes neither the counter nor the payload.
C10_ReopenLeavesSlot ==
    [][(det_exists /\ \E fail \in Failures : WithPath(fail)) =>
          (det_seq' = det_seq /\ det_payload' = det_payload)]_vars

----------------------------------------------------------------------------
(* Claims about BridgeSemaphore's factories, checked under MqSpec *)

\* C18 (permissive creation): when two processes run create on the same
\* name at the same time, both end with a handle and the two handles refer
\* to one queue.
C18_CreatorsShareQueue ==
    ( /\ \A p \in Procs : h_pc[p] = "done" /\ h_call[p] = "create"
      /\ \A p \in Procs : h_conc[p] )
        => (mqd[1] # 0 /\ mqd[1] = mqd[2])

----------------------------------------------------------------------------
(* Claims about the event loop and its queues *)

\* C12 (post never blocks): post() enqueues one token when the queue has
\* room and returns failure at once when it is full, so that wait() is the
\* only place where the loop can be held up: everywhere else in the loop
\* the process has a step of its own to take.
C12_OnlyWaitBlocks ==
    p_pc \notin {"start", "wait"} => ENABLED PipeStep

\* C13 (liveness without the controller): with capture publishing valid
\* frames and every stage succeeding, the loop keeps going whether or not
\* anyone consumes the controller queue: a post that cannot be delivered
\* returns, is logged, and the iteration goes on to its end.
C13_PostReturns ==
    (p_pc = "post") ~> (p_pc = "posted")

\* drain() returns to main, which adds its result to frames_skipped.
DrainReturns == p_pc = "trywaited" /\ p_pc' = "frame"

\* An iteration in which wait() returned true ends: wait() is entered again.
IterationEnds == p_pc \in {"frame", "drop"} /\ p_pc' = "wait"

C15_FrameNumbersIncrease ==
    [][ (det_seq' # det_seq /\ det_seq >= 1) =>
            w_rec.id > w_entry_payload[1].id ]_vars

\* wait() returns true to main.
WaitReturnsTrue == p_pc = "wait" /\ p_pc' = "waited" /\ p_ret' = "true"

\* C16 (what a token tells): whenever wait() returns, at least one frame
\* has been published since the previous wait() returned.
C16_PublishedSinceLastWait ==
    [][ WaitReturnsTrue => frame_seq > g_wait_seq ]_vars

\* C16 as the code has it: whenever wait() returns, at least one frame has
\* been published since the token that the previous wait() returned was
\* posted: the token now returned was posted for a later publication, one
\* that has taken place.
C16_PublishedSinceLastToken ==
    [][ WaitReturnsTrue =>
            (Head(fq) > g_prev_stamp /\ frame_seq >= Head(fq)) ]_vars

\* wait() has returned for the second time at least.
C16_Witness ==
    /\ p_pc = "waited"
    /\ p_ret = "true"
    /\ g_prev_stamp >= 2
    /\ g_wait_seq = frame_seq

\* C17 (coherent metadata): a published detection record carries the
\* frame_number (timestamp_ns, camera_id) of the one frame record whose
\* pixels went into the inference, also when capture publishes during the
\* iteration.
C17_MetadataOfThePixels ==
    (p_pc = "write" /\ w_pc = "ret" /\ w_ret = "ok") => w_rec.id = PixelsOf

\* C19 (blocking wait): wait() returns true only by taking exactly one
\* token; an EINTR is retried and does not make it return; it returns false
\* only on an error other than EINTR, and then no token is taken.
C19_WaitTakesOneToken ==
    [][ /\ WaitReturnsTrue => (fq # <<>> /\ fq' = Tail(fq))
        /\ (p_pc = "wait" /\ p_pc' = "waited" /\ p_ret' = "false") =>
              (fq' = fq /\ p_errno' = "EOTHER")
        /\ (p_pc = "wait" /\ p_errno # "EINTR" /\ p_errno' = "EINTR") =>
              (p_pc' = "wait" /\ p_ret' = "none" /\ fq' = fq)
      ]_vars

\* wait() has returned true after an EINTR was retried.
C19_Witness ==
    /\ p_pc = "waited"
    /\ p_ret = "true"
    /\ p_errno = "EINTR"

\* try_wait() returns to drain().
TryWaitReturns == p_pc = "drain" /\ p_pc' = "trywaited"

\* C20 (non-blocking try_wait): try_wait() always has its step to take; it
\* returns true exactly when it took one token, and on an empty queue it
\* returns false and leaves the queue as it was.
C20_TryWaitNeverBlocks ==
    /\ [](p_pc = "drain" => ENABLED P_TryWait(FALSE))
    /\ [][ TryWaitReturns =>
              /\ p_ret' = "true" <=> (fq # <<>> /\ fq' = Tail(fq))
              /\ p_ret' = "false" => fq' = fq
              /\ fq = <<>> => (p_ret' = "false" /\ fq' = fq)
         ]_vars

\* try_wait() has returned false on the empty queue after it had returned
\* true on a token.
C20_Witness ==
    /\ p_pc = "trywaited"
    /\ p_ret = "false"
    /\ p_errno = "ETIMEDOUT"
    /\ fq = <<>>
    /\ count >= 1

\* No token was posted to the frame queue while drain() ran: the tokens it
\* received and those still queued are the ones it was entered with.
NoConcurrentPost == Len(fq) + g_taken = g_n

C28_SkippedIterationDoesNothing ==
    /\ [](g_skipped =>
            (p_pc = "drop" /\ ENABLED ((p_pc = "drop" /\ DropView) \/ P_Loop)))
    /\ [][ (IterationEnds /\ (p_pc = "frame" \/ g_skipped)) =>
              (DoneSoFar = g_at_wait /\ DoneSoFar' = g_at_wait) ]_vars

\* An iteration was given up for a frame without pixels, after an
\* iteration that published detections and posted.
C28_Witness ==
    /\ g_skipped
    /\ p_pc = "drop"
    /\ ~HasPixels
    /\ g_at_wait.writes >= 1
    /\ g_at_wait.posts >= 1

\* C29 (post after write): a token is posted to the controller queue only
\* after detection_writer.write returned true in the same iteration, so
\* the calls of post() never outnumber the successful writes.
C29_PostOnlyAfterWrite ==
    /\ p_pc \in {"post", "posted"} => g_writes > g_at_wait.writes
    /\ g_posts <= g_writes

----------------------------------------------------------------------------
(* Claims about preprocess and parse_detections *)

\* The raw detections whose score is not below the threshold, in the
\* engine's order.
Kept == SelectSeq(raw, LAMBDA d : ~FLess(d.score, Threshold))

\* C25 (confidence filter): parse_detections puts out exactly the raw
\* detections whose score is not below the threshold, in the engine's
\* order, each with its score as confidence and its label as class_id;
\* never more than the N the engine put out.
C25_FilterKeepsOrder ==
    t_pc = "done" =>
        /\ Len(detections) = Len(Kept)
        /\ Len(detections) <= MaxRaw
        /\ \A i \in 1..Len(Kept) :
              /\ detections[i].confidence = Kept[i].score
              /\ detections[i].class_id = Kept[i].label
              /\ detections[i] = Emitted(Kept[i], Transform)

\* parse_detections has returned one detection: the first raw detection
\* was below the threshold, the second exactly at it.
C25_Witness ==
    /\ t_pc = "done"
    /\ Len(raw) >= 2
    /\ FLess(raw[1].score, Threshold)
    /\ raw[2].score = Threshold
    /\ Len(detections) >= 1
    /\ detections[1].confidence = Threshold

\* a <= b in float.
FLeq(a, b) == ~FLess(b, a)

\* C26 (coordinate clamping): for any transform and any raw output, every
\* box put out satisfies 0 <= x1 <= x2 <= orig_width and
\* 0 <= y1 <= y2 <= orig_height.
C26_BoxesOrderedInImage ==
    \A i \in 1..Len(detections) :
        LET b == detections[i] IN
            /\ FLeq(FZero, b.x1) /\ FLeq(b.x1, b.x2) /\ FLeq(b.x2, FromInt(img[1]))
            /\ FLeq(FZero, b.y1) /\ FLeq(b.y1, b.y2) /\ FLeq(b.y2, FromInt(img[2]))

\* floor(d * S / max(width, height)): floor(d * scale) for the scale
\* min(S / width, S / height), in exact arithmetic.
ExactScaled(d) ==
    (d * INPUT_SIZE) \div (IF img[1] >= img[2] THEN img[1] ELSE img[2])

\* The letterbox box (0, 140, 640, 500) of a 1920 x 1080 frame comes out as
\* (0, 0, 1920, 1080).
FullFrameExample ==
    (t_pc = "done" /\ img = <<1920, 1080>>) =>
        /\ pre.new_width = 640 /\ pre.new_height = 360
        /\ pre.offset_x = 0 /\ pre.offset_y = 140
        /\ \A i \in 1..Len(Kept) :
              Kept[i].box = <<0, 140, 640, 500>> =>
                  /\ detections[i].x1 = FZero
                  /\ detections[i].y1 = FZero
                  /\ detections[i].x2 = FromInt(1920)
                  /\ detections[i].y2 = FromInt(1080)

----------------------------------------------------------------------------
(* Claims about the engine adapter *)

\* C23 (failed load): if any step of load_engine fails (the file, the
\* runtime, the engine, the context, a device buffer), load_engine returns
\* false and the adapter is Unloaded again: it holds no runtime, engine,
\* context or device buffer.
C23_FailedLoadIsUnloaded ==
    (a_pc = "idle" /\ a_call = "load" /\ a_ret = "false") => Unloaded

\* C24 (failed infer): an infer that fails at a copy or at the execution
\* returns false and leaves the adapter Loaded, holding what it held when
\* infer was entered, so that a later infer can succeed.
C24_FailedInferStaysLoaded ==
    /\ []((a_pc = "idle" /\ a_call = "infer" /\ a_ret = "false") =>
            (Loaded /\ Held = a_entry /\ (a_infers < MaxInfers => ENABLED Infer_Begin)))
    /\ [][ (a_pc = "infer" /\ a_pc' = "idle" /\ a_ret' = "false") =>
              (Held' = Held /\ Held' = a_entry /\ Loaded') ]_vars

\* An infer has succeeded on an adapter whose infer had failed before.
C24_Witness ==
    /\ a_pc = "idle"
    /\ a_call = "infer"
    /\ a_ret = "true"
    /\ a_failed
    /\ Loaded


----------------------------------------------------------------------------
(* Claims about main's start *)

\* main has returned 1 for one of its three fatal failures: load_engine
\* returned false, DetectionWriter::build yielded no writer, or
\* BridgeSemaphore::create yielded no controller queue.
FatalStartupFailure ==
    \/ s_pc = "engine" /\ a_call = "load" /\ a_ret = "false"
    \/ s_pc = "writer" /\ ~w_open'
    \/ s_pc = "ctl_create" /\ h_call[1] = "create" /\ mqd[1] = 0

\* C22: main returns only 1, and only when the engine load, the
\* detection buffer's open/creation or the controller queue's creation has
\* failed; while the frame buffer or the frame queue is absent main stays
\* in its retry loop and leaves it only when the buffer or queue is there;
\* main never returns 0, and once in the event loop it stays there.
C22_StartupOutcomes ==
    /\ [](exit_code \in {-1, 1})
    /\ []((s_pc = "exited") <=> (exit_code = 1))
    /\ [][ s_pc' = "exited" /\ s_pc # "exited" => FatalStartupFailure ]_vars
    /\ [][ s_pc = "reader" => (s_pc' \in {"reader", "writer"}
                                /\ (s_pc' = "writer" => frame_file)) ]_vars
    /\ [][ s_pc = "frame_sem" => (s_pc' \in {"frame_sem", "ctl_open"}
                                   /\ (s_pc' = "ctl_open" => fq_exists)) ]_vars
    /\ [][ s_pc = "loop" => (s_pc' = "loop" /\ (p_pc # "start" => p_pc' # "start")) ]_vars

\* main is in its event loop and has processed a frame, after retrying while
\* the frame buffer or the frame queue was absent.
C22_Witness ==
    /\ s_pc = "loop"
    /\ s_retried
    /\ p_pc = "wait"
    /\ frames_processed > 0


----------------------------------------------------------------------------
(* Claims about errors of one frame *)

\* C30: once the event loop is entered, no error of one frame ends the
\* process or closes the detection mapping: the process is running, and
\* its DetectionWriter is alive, in every state after the loop's entry.
C30_FrameErrorsKeepRunning ==
    (p_pc # "start") => (p_pc # "terminated" /\ w_open)


----------------------------------------------------------------------------
(* Claims about the controller queue at the start *)

\* C31: once main is in its event loop with the controller holding a
\* descriptor of the controller queue's name, both hold the same queue, so
\* what main posts is what the controller can receive.
C31_SameControllerQueue ==
    (s_pc = "loop" /\ h_pc[2] = "done" /\ mqd[2] # 0) => mqd[1] = mqd[2]


----------------------------------------------------------------------------
(* Claims about the loop's bookkeeping *)

\* C32: the mark_read() that ends a processed iteration leaves
\* last_sequence_ at the sequence number under which this iteration's
\* get_frame() read its frame (its first load, equal to its second).
C32_MarkReadIsTheFrameRead ==
    [][ (p_pc = "posted" /\ p_pc' = "drop") => last_sequence' = g_read_seq ]_vars


\* C33: between iterations frames_processed is the number of detection
\* records this process has published, the calls of write that returned
\* true.
C33_ProcessedIsPublished ==
    (p_pc = "wait") => (frames_processed = g_writes)


----------------------------------------------------------------------------
(* Claims about what preprocess is given *)

\* C34: a frame is in preprocess only with width > 0, height > 0 and a
\* pixel vector of at least width * height * 3 bytes, and preprocess has
\* read no byte past the vector.
C34_PixelsCoverTheImage ==
    /\ (v_pc = "preprocess") =>
          /\ v_frame.width > 0
          /\ v_frame.height > 0
          /\ PixelBytes(v_frame) >= v_frame.width * v_frame.height * 3
    /\ v_read <= IF PixelBytes(v_frame) = -1 THEN 0 ELSE PixelBytes(v_frame)


----------------------------------------------------------------------------
(* Claims about ownership *)

\* How often resource r has been released.
TimesReleased(r) == Cardinality({i \in 1..Len(released) : released[i] = r})

\* The members of live objects that hold resource r.
Holders(r) ==
    {<<o, m>> \in Objs \X {"map", "fd", "mqd"} : objs[o].live /\ objs[o].hold[m] = r}

\* C35: every descriptor, mapping and queue descriptor that was acquired
\* is either held by exactly one member of one live object and not yet
\* released, or held by none and released exactly once; a moved-from
\* object holds nothing, so it releases nothing.
C35_ReleasedExactlyOnce ==
    \A r \in 1..acquired :
        \/ TimesReleased(r) = 0 /\ Cardinality(Holders(r)) = 1
        \/ TimesReleased(r) = 1 /\ Holders(r) = {}

\* One live object is moved-from and holds nothing, another holds what it
\* took over, and earlier resources have been released: by a failed
\* with_path, a move assignment or a destructor.
C35_Witness ==
    /\ \E o, other \in Objs :
          /\ objs[o].live /\ objs[o].hold = NoHold
          /\ objs[other].live /\ objs[other].hold.map # 0
    /\ Len(released) >= 2


\* The members of live TensorRTBackend objects that hold resource r.
GpuHolders(r) ==
    {<<o, m, b>> \in Objs \X {"runtime", "engine", "context", "bufs"} \X (0..NumBuffers) :
        /\ objs[o].live
        /\ objs[o].class = "TensorRTBackend"
        /\ IF m = "bufs"
             THEN b \in Buffers /\ objs[o].hold.bufs[b] = r
             ELSE b = 0 /\ objs[o].hold[m] = r}

\* C36: every GPU resource that was acquired is either held by exactly
\* one member of one live TensorRTBackend and not yet released, or held by
\* none and released exactly once: none is overwritten, none is left
\* behind when its owner is gone.
C36_GpuReleasedExactlyOnce ==
    \A r \in 1..acquired :
        \/ TimesReleased(r) = 0 /\ Cardinality(GpuHolders(r)) = 1
        \/ TimesReleased(r) = 1 /\ GpuHolders(r) = {}

====
